---- MODULE Spec2Model ----
(***************************************************************************)
(* The course platform: the course_progress table and the POST             *)
(* .../progress route of the server, the lesson, course and resource rows  *)
(* the admin routes create, update and delete behind authenticateToken     *)
(* and requireAdmin, the progress state the React CourseProvider keeps     *)
(* for the logged-in user, the AdminCourseEdit page with its two-write     *)
(* reorder, and the video URL classification of CourseDetail.              *)
(***************************************************************************)
EXTENDS Integers, Sequences, FiniteSets, TLC

VARIABLES
    lessons,          \* rows of table lessons: [id, course_id, title, order_index]
    course_progress,  \* rows of table course_progress
    courses,          \* CourseProvider state `courses`: course id -> lesson ids
    progress,         \* CourseProvider state `progress`: course id -> CourseProgress
    lastOp,           \* the operation that produced this state, and its outcome
    users,            \* rows of table users: [id, is_admin]
    courses_table,    \* rows of table courses: [id, title]
    resources,        \* rows of table resources
    uploads,          \* names of the files in the uploads directory or bucket
    adminPage,        \* state of the AdminCourseEdit page of each admin browser
    player,           \* the lesson video CourseDetail renders: url, shape, src
    reply,            \* what the last step's request to an admin or resource route answered
    toggles,          \* the completion requests of LessonDetail's button: sent, served, returned
    dbInitialized,    \* api.ts: let dbInitialized
    dbInitPromise,    \* api.ts: let dbInitPromise; 0 is null, k the promise of the k-th initDatabase()
    initRuns,         \* the calls of initDatabase() of this process: pending, resolved or rejected
    invocations       \* the invocations of the function's handler and where each stands

vars == <<lessons, course_progress, courses, progress, lastOp,
          users, courses_table, resources, uploads, adminPage, player, reply,
          toggles, dbInitialized, dbInitPromise, initRuns, invocations>>

\* The state of the serverless function's module and of its invocations.
fnVars == <<dbInitialized, dbInitPromise, initRuns, invocations>>

\* The state of the server's content tables apart from lessons and progress,
\* and of the pages that edit and show the content.
contentVars == <<users, courses_table, resources, uploads, adminPage, player>>

(***************************************************************************)
(* Bounds of the model.                                                    *)
(***************************************************************************)
MaxTime == 2      \* distinct values CURRENT_TIMESTAMP takes
MaxRows == 3      \* rows the course_progress table holds
MaxStreak == 2    \* consecutive successful completions of one lesson that are counted
MaxToggles == 3   \* clicks on the toggle button of LessonDetail
MaxRequests == 4  \* invocations of the serverless function in one process
MaxRuns == 2      \* calls of initDatabase() the model follows

(***************************************************************************)
(* Identifiers.  Users are the seeded admin and accounts made by signup,   *)
(* whose id is Date.now().toString(); courses are the seeded ones (there   *)
(* is no route that creates a course); a lesson id is seeded or chosen by  *)
(* an admin.                                                               *)
(***************************************************************************)
DefaultUserId == "test-user-001"
SignupUserId == "1700000000001"
UserIds == {DefaultUserId, SignupUserId}
CourseIds == {"1", "11"}
ClientUser == SignupUserId

NULL == 0
Timestamps == 1..MaxTime

\* A nullable text column: NULL, or a text.
SqlNull == [isNull |-> TRUE, text |-> ""]
SqlText(s) == [isNull |-> FALSE, text |-> s]

(***************************************************************************)
(* Table course_progress and the statements of the progress route.         *)
(***************************************************************************)
\* The id joined without the separators (a mutant).
SyntheticIdUnseparated(userId, courseId, lessonId) ==
    userId \o courseId \o lessonId

\* `${userId}-${courseId}-${lessonId}`
SyntheticId(userId, courseId, lessonId) ==
    userId \o "-" \o courseId \o "-" \o lessonId

LessonIdsOf(lessonRows, courseId) ==
    {x.id : x \in {y \in lessonRows : y.course_id = courseId}}

RowsOf(rows, userId, courseId, lessonId) ==
    {r \in rows : r.user_id = userId /\ r.course_id = courseId /\ r.lesson_id = lessonId}

\* A statement's result: whether it ran without a database error, and the table.
Done(rows) == [ok |-> TRUE, rows |-> rows]
Failed(rows) == [ok |-> FALSE, rows |-> rows]

\* The insert with neither conflict clause nor unique constraint (a mutant).
InsertAlways(rows, lessonRows, userId, courseId, lessonId, ts) ==
    Done(rows \cup {[id |-> SyntheticId(userId, courseId, lessonId),
                     user_id |-> userId, course_id |-> courseId,
                     lesson_id |-> lessonId, completed |-> TRUE,
                     completed_at |-> ts]})

\* INSERT ... ON CONFLICT(user_id, course_id, lesson_id) DO UPDATE SET
\* completed = TRUE, completed_at = CURRENT_TIMESTAMP, under the table's
\* PRIMARY KEY (id), UNIQUE(user_id, course_id, lesson_id) and FOREIGN KEYs.
UpsertCompleted(rows, lessonRows, userId, courseId, lessonId, ts) ==
    LET same == RowsOf(rows, userId, courseId, lessonId)
        newId == SyntheticId(userId, courseId, lessonId)
    IN  IF same # {}
        THEN Done({IF r \in same
                   THEN [r EXCEPT !.completed = TRUE, !.completed_at = ts]
                   ELSE r : r \in rows})
        ELSE IF \E r \in rows : r.id = newId
        THEN Failed(rows)
        ELSE IF \/ userId \notin UserIds
                \/ courseId \notin CourseIds
                \/ lessonId \notin {x.id : x \in lessonRows}
        THEN Failed(rows)
        ELSE Done(rows \cup {[id |-> newId, user_id |-> userId,
                              course_id |-> courseId, lesson_id |-> lessonId,
                              completed |-> TRUE, completed_at |-> ts]})

\* The update that leaves completed_at as it was (a mutant).
UpdateIncompleteKeepsTime(rows, userId, courseId, lessonId) ==
    Done({IF r \in RowsOf(rows, userId, courseId, lessonId)
          THEN [r EXCEPT !.completed = FALSE]
          ELSE r : r \in rows})

\* UPDATE course_progress SET completed = FALSE, completed_at = NULL WHERE ...
UpdateIncomplete(rows, userId, courseId, lessonId) ==
    Done({IF r \in RowsOf(rows, userId, courseId, lessonId)
          THEN [r EXCEPT !.completed = FALSE, !.completed_at = NULL]
          ELSE r : r \in rows})

\* The handler of POST /:courseId/lessons/:lessonId/progress.  dbOk is FALSE
\* when pool.query throws for a reason outside the statement (connection).
PostProgress(rows, lessonRows, userId, courseId, lessonId, completed, ts, dbOk) ==
    LET res == IF ~dbOk THEN Failed(rows)
               ELSE IF completed
               THEN UpsertCompleted(rows, lessonRows, userId, courseId, lessonId, ts)
               ELSE UpdateIncomplete(rows, userId, courseId, lessonId)
    IN  [status |-> IF res.ok THEN 200 ELSE 500,
         error |-> IF res.ok THEN "" ELSE "Internal server error",
         rows |-> res.rows]

\* A cascade that takes every row of the table (a mutant).
CascadeDeleteAll(rows, lessonId) == {}

\* DELETE FROM lessons WHERE id = ? AND course_id = ?; the rows of
\* course_progress that reference the lesson go with it (ON DELETE CASCADE).
CascadeDelete(rows, lessonId) == {r \in rows : r.lesson_id # lessonId}

(***************************************************************************)
(* The aggregation the CourseProvider computes.                            *)
(***************************************************************************)
Finite(n) == [kind |-> "finite", value |-> n]
NaN == [kind |-> "NaN", value |-> 0]
Infinity == [kind |-> "Infinity", value |-> 0]

\* Math.floor in the place of Math.round (a mutant).
MathFloorPct(completedLessons, total) ==
    IF total = 0
    THEN IF completedLessons = 0 THEN NaN ELSE Infinity
    ELSE Finite((100 * completedLessons) \div total)

\* Math.round((completedLessons / total) * 100): x/0 is NaN for x = 0 and
\* Infinity for x > 0, and Math.round keeps both; otherwise floor(x + 0.5).
MathRoundPct(completedLessons, total) ==
    IF total = 0
    THEN IF completedLessons = 0 THEN NaN ELSE Infinity
    ELSE Finite((200 * completedLessons + total) \div (2 * total))

\* The number of keys in the place of the number of true values (a mutant).
CountKeys(lessonProgress) == Cardinality(DOMAIN lessonProgress)

\* Object.values(lessonProgress).filter(Boolean).length
CountTrue(lessonProgress) ==
    Cardinality({x \in DOMAIN lessonProgress : lessonProgress[x]})

EmptyLessonProgress == [x \in {} |-> TRUE]

\* { ...lessonProgress, [lessonId]: value }
Put(lessonProgress, lessonId, value) ==
    [x \in DOMAIN lessonProgress \cup {lessonId} |->
        IF x = lessonId THEN value ELSE lessonProgress[x]]

\* The rows GET /courses/progress/all returns for a user.
GetAllProgress(rows, userId) == {r \in rows : r.user_id = userId}

\* lessonProgress as loadProgress builds it for one course from the rows.
LoadedLessonProgress(courseId, items) ==
    [x \in {i.lesson_id : i \in {j \in items : j.course_id = courseId /\ j.completed}}
        |-> TRUE]

\* The entry loadProgress computes for one course of `courses`.
LoadedEntry(courseId, lessonIds, items) ==
    LET lessonProgress == LoadedLessonProgress(courseId, items)
        completedLessons == CountTrue(lessonProgress)
    IN  [courseId |-> courseId,
         lessonProgress |-> lessonProgress,
         completedLessons |-> completedLessons,
         totalLessons |-> Cardinality(lessonIds),
         percentage |-> MathRoundPct(completedLessons, Cardinality(lessonIds))]

\* progressMap of loadProgress: one entry per course of `courses`.
ProgressMap(clientCourses, items) ==
    [c \in DOMAIN clientCourses |-> LoadedEntry(c, clientCourses[c], items)]

\* calculateProgress(courseId), which getCourseProgress returns.
CalculateProgress(clientCourses, prog, courseId) ==
    IF courseId \notin DOMAIN clientCourses
    THEN [courseId |-> courseId, lessonProgress |-> EmptyLessonProgress,
          completedLessons |-> 0, totalLessons |-> 0, percentage |-> Finite(0)]
    ELSE LET total == Cardinality(clientCourses[courseId])
             currentProgress ==
                 IF courseId \in DOMAIN prog
                 THEN prog[courseId]
                 ELSE [courseId |-> courseId, lessonProgress |-> EmptyLessonProgress,
                       completedLessons |-> 0, totalLessons |-> total,
                       percentage |-> Finite(0)]
             completedLessons == CountTrue(currentProgress.lessonProgress)
         IN  [currentProgress EXCEPT
                 !.completedLessons = completedLessons,
                 !.totalLessons = total,
                 !.percentage = MathRoundPct(completedLessons, total)]

\* The entry of a course after a toggle of lessonId to value, from the entry
\* courseProgress the updater started with.
ToggledEntry(courseProgress, clientCourses, courseId, lessonId, value) ==
    LET updatedLessonProgress == Put(courseProgress.lessonProgress, lessonId, value)
        completedLessons == CountTrue(updatedLessonProgress)
    IN  [courseProgress EXCEPT
            !.lessonProgress = updatedLessonProgress,
            !.completedLessons = completedLessons,
            !.percentage = IF courseId \in DOMAIN clientCourses
                           THEN MathRoundPct(completedLessons,
                                             Cardinality(clientCourses[courseId]))
                           ELSE Finite(0)]

\* An updater that adds one to the count it found (a mutant).
CompleteLocallyByIncrement(prev, clientCourses, courseId, lessonId) ==
    LET courseProgress ==
            IF courseId \in DOMAIN prev
            THEN prev[courseId]
            ELSE [courseId |-> courseId, lessonProgress |-> EmptyLessonProgress,
                  completedLessons |-> 0, totalLessons |-> 0, percentage |-> Finite(0)]
        entry == ToggledEntry(courseProgress, clientCourses, courseId, lessonId, TRUE)
    IN  [c \in DOMAIN prev \cup {courseId} |->
            IF c = courseId
            THEN [entry EXCEPT !.completedLessons = courseProgress.completedLessons + 1]
            ELSE prev[c]]

\* The setProgress updater of markLessonComplete.
CompleteLocally(prev, clientCourses, courseId, lessonId) ==
    LET courseProgress ==
            IF courseId \in DOMAIN prev
            THEN prev[courseId]
            ELSE [courseId |-> courseId, lessonProgress |-> EmptyLessonProgress,
                  completedLessons |-> 0,
                  totalLessons |-> IF courseId \in DOMAIN clientCourses
                                   THEN Cardinality(clientCourses[courseId])
                                   ELSE 0,
                  percentage |-> Finite(0)]
    IN  [c \in DOMAIN prev \cup {courseId} |->
            IF c = courseId
            THEN ToggledEntry(courseProgress, clientCourses, courseId, lessonId, TRUE)
            ELSE prev[c]]

\* An updater that leaves the lesson marked (a mutant).
IncompleteLocallyKeepsMark(prev, clientCourses, courseId, lessonId) == prev

\* The setProgress updater of markLessonIncomplete.
IncompleteLocally(prev, clientCourses, courseId, lessonId) ==
    IF courseId \notin DOMAIN prev
    THEN prev
    ELSE [prev EXCEPT ![courseId] =
             ToggledEntry(prev[courseId], clientCourses, courseId, lessonId, FALSE)]

\* ApiClient.request of updateLessonProgress: { error } when fetch throws or
\* the response is not ok, { data } otherwise.
UpdateLessonProgress(rows, lessonRows, courseId, lessonId, completed, ts, fault) ==
    IF fault = "network"
    THEN [status |-> 0, error |-> "Network error", rows |-> rows]
    ELSE PostProgress(rows, lessonRows, ClientUser, courseId, lessonId,
                      completed, ts, fault # "db")

Faults == {"none", "db", "network"}

(***************************************************************************)
(* Requests to the admin and resource routes: the values of a JSON body,   *)
(* the Authorization header, and the two middlewares.                      *)
(***************************************************************************)
\* A value of a request body: absent, null, a number or a string.
Undefined == [kind |-> "undefined", num |-> 0, str |-> ""]
JsonNull == [kind |-> "null", num |-> 0, str |-> ""]
Num(n) == [kind |-> "number", num |-> n, str |-> ""]
Str(s) == [kind |-> "string", num |-> 0, str |-> s]

\* !value of JavaScript.
Falsy(v) ==
    \/ v.kind \in {"undefined", "null"}
    \/ v.kind = "number" /\ v.num = 0
    \/ v.kind = "string" /\ v.str = ""

\* String.prototype.trim for strings padded with spaces.
RECURSIVE Trim(_)
Trim(s) ==
    IF Len(s) = 0 THEN s
    ELSE IF SubSeq(s, 1, 1) = " " THEN Trim(SubSeq(s, 2, Len(s)))
    ELSE IF SubSeq(s, Len(s), Len(s)) = " " THEN Trim(SubSeq(s, 1, Len(s) - 1))
    ELSE s

Digits == <<"0", "1", "2", "3", "4", "5", "6", "7", "8", "9">>

IsDigit(c) == \E i \in 1..10 : Digits[i] = c

DigitValue(c) == (CHOOSE i \in 1..10 : Digits[i] = c) - 1

RECURSIVE DecimalValue(_)
DecimalValue(s) ==
    IF Len(s) = 0 THEN 0
    ELSE 10 * DecimalValue(SubSeq(s, 1, Len(s) - 1))
         + DigitValue(SubSeq(s, Len(s), Len(s)))

\* Number(value): null and the blank string give 0, a string of digits its
\* value, any other string NaN.
JsNumber(v) ==
    IF v.kind = "number" THEN [nan |-> FALSE, value |-> v.num]
    ELSE IF v.kind = "null" THEN [nan |-> FALSE, value |-> 0]
    ELSE IF v.kind = "undefined" THEN [nan |-> TRUE, value |-> 0]
    ELSE LET t == Trim(v.str)
         IN  IF \A i \in 1..Len(t) : IsDigit(SubSeq(t, i, i))
             THEN [nan |-> FALSE, value |-> DecimalValue(t)]
             ELSE [nan |-> TRUE, value |-> 0]

\* The Authorization header of a request: none, a token jwt.verify rejects,
\* or a token generateToken signed for a user.
NoToken == [kind |-> "none", userId |-> ""]
BadToken == [kind |-> "invalid", userId |-> ""]
TokenOf(userId) == [kind |-> "valid", userId |-> userId]

\* authenticateToken: the status it answers, 200 standing for next().
AuthenticateToken(token) ==
    IF token.kind = "none" THEN 401
    ELSE IF token.kind = "invalid" THEN 403
    ELSE 200

\* A check of the token alone in the place of the users table (a mutant).
RequireAdminByToken(userRows, token) ==
    IF token.kind # "valid" THEN 401 ELSE 200

\* requireAdmin: SELECT * FROM users WHERE id = ?, then user.is_admin.
RequireAdmin(userRows, token) ==
    IF token.kind # "valid" THEN 401
    ELSE IF \E u \in userRows : u.id = token.userId /\ u.is_admin THEN 200
    ELSE 403

\* The middlewares in front of a handler: admin routes run both.
Gate(userRows, token, adminOnly) ==
    IF AuthenticateToken(token) # 200 THEN AuthenticateToken(token)
    ELSE IF adminOnly THEN RequireAdmin(userRows, token)
    ELSE 200

\* What a route answers: the status, the error of the body, the rows of the
\* body, and the rows of the table it works on afterwards.
Answer(status, error, data, rows) ==
    [status |-> status, error |-> error, data |-> data, rows |-> rows]

\* What the client receives of an answer, and the absence of one.
ReplyOf(answer) ==
    [status |-> answer.status, error |-> answer.error, data |-> answer.data]

NoReply == [status |-> 0, error |-> "", data |-> {}]

(***************************************************************************)
(* Table lessons and the admin routes of the course router.                *)
(***************************************************************************)
\* A row of table lessons; video_url is "" where the column is NULL or ''
\* (the pages test it for truth only).
LessonRow(id, courseId, title, videoUrl, orderIndex) ==
    [id |-> id, course_id |-> courseId, title |-> title,
     video_url |-> videoUrl, order_index |-> orderIndex]

LessonsIn(lessonRows, courseId) == {x \in lessonRows : x.course_id = courseId}

\* SELECT COALESCE(MAX(order_index), 0) FROM lessons WHERE course_id = ?
MaxOrderIndex(lessonRows, courseId) ==
    LET orders == {x.order_index : x \in LessonsIn(lessonRows, courseId)}
    IN  IF orders = {} THEN 0
        ELSE CHOOSE m \in orders : \A o \in orders : o <= m

\* An order that steps over the values already taken (a mutant).
OrderToUseAvoidingTaken(lessonRows, courseId, order_index) ==
    LET order == JsNumber(order_index)
        taken == {x.order_index : x \in LessonsIn(lessonRows, courseId)}
    IN  IF order_index.kind # "undefined" /\ ~order.nan /\ order.value \notin taken
        THEN order.value
        ELSE MaxOrderIndex(lessonRows, courseId) + 1

\* orderToUse of the create route: Number(order_index) when it was sent and
\* is not NaN, COALESCE(MAX(order_index), 0) + 1 otherwise.
OrderToUse(lessonRows, courseId, order_index) ==
    LET order == JsNumber(order_index)
    IN  IF order_index.kind # "undefined" /\ ~order.nan
        THEN order.value
        ELSE MaxOrderIndex(lessonRows, courseId) + 1

\* The create route with the insert ahead of the lookup of the id (a mutant).
LessonPostInsertFirst(lessonRows, courseRows, courseId, body, uuid, dbOk) ==
    LET lessonId == IF body.id.kind = "string" /\ Trim(body.id.str) # ""
                    THEN Trim(body.id.str)
                    ELSE courseId \o "-" \o uuid
        newLesson == LessonRow(lessonId, courseId, Trim(body.title.str),
                               IF body.video_url.kind = "string"
                               THEN body.video_url.str ELSE "",
                               OrderToUse(lessonRows, courseId, body.order_index))
    IN  IF \E x \in lessonRows : x.id = lessonId
        THEN Answer(400, "A lesson with this id already exists",
                    {}, {x \in lessonRows : x.id # lessonId} \cup {newLesson})
        ELSE Answer(201, "", {newLesson}, lessonRows \cup {newLesson})

\* router.post('/:courseId/lessons'): body is { title, video_url, order_index,
\* id }, uuid the eight characters uuidv4 gives, dbOk FALSE when the pool
\* throws.
LessonPost(lessonRows, courseRows, courseId, body, uuid, dbOk) ==
    IF Falsy(body.title) \/ (body.title.kind = "string" /\ Trim(body.title.str) = "")
    THEN Answer(400, "title is required", {}, lessonRows)
    ELSE IF body.title.kind # "string" \/ ~dbOk
    THEN Answer(500, "Internal server error", {}, lessonRows)
    ELSE IF ~ \E c \in courseRows : c.id = courseId
    THEN Answer(404, "Course not found", {}, lessonRows)
    ELSE LET lessonId == IF body.id.kind = "string" /\ Trim(body.id.str) # ""
                         THEN Trim(body.id.str)
                         ELSE courseId \o "-" \o uuid
             newLesson == LessonRow(lessonId, courseId, Trim(body.title.str),
                                    IF body.video_url.kind = "string"
                                    THEN body.video_url.str ELSE "",
                                    OrderToUse(lessonRows, courseId, body.order_index))
         IN  IF \E x \in lessonRows : x.id = lessonId
             THEN Answer(400, "A lesson with this id already exists", {}, lessonRows)
             ELSE Answer(201, "", {newLesson}, lessonRows \cup {newLesson})

\* The UPDATE of the update route on one row: the fields the body defines.
UpdatedLesson(row, body) ==
    [row EXCEPT
        !.title = IF body.title.kind = "string" THEN body.title.str ELSE @,
        !.video_url = IF body.videoUrl.kind = "string" THEN body.videoUrl.str ELSE @,
        !.order_index = IF body.order_index.kind # "undefined"
                        THEN JsNumber(body.order_index).value ELSE @]

\* The update under a UNIQUE (course_id, order_index) constraint, which
\* refuses an order another lesson of the course holds (a mutant).
LessonPutUniqueOrder(lessonRows, courseId, lessonId, body, dbOk) ==
    LET matching == {x \in lessonRows : x.id = lessonId /\ x.course_id = courseId}
        after == {IF x \in matching THEN UpdatedLesson(x, body) ELSE x :
                     x \in lessonRows}
    IN  IF /\ body.title.kind = "undefined"
           /\ body.videoUrl.kind = "undefined"
           /\ body.order_index.kind = "undefined"
        THEN Answer(400, "No fields to update", {}, lessonRows)
        ELSE IF \/ ~dbOk
                \/ \E x \in after : \E y \in after :
                       /\ x.id # y.id /\ x.course_id = y.course_id
                       /\ x.order_index = y.order_index
        THEN Answer(500, "Internal server error", {}, lessonRows)
        ELSE Answer(200, "",
                    {x \in after : x.id = lessonId /\ x.course_id = courseId}, after)

\* router.put('/:courseId/lessons/:lessonId'): body is { title, videoUrl,
\* order_index } (content and section are handled as title is).  A NaN
\* order fails at the bind of the statement, a null title on the row's NOT
\* NULL; a lesson the course does not have matches no row and the route
\* answers 200 with the empty result of the SELECT.
LessonPut(lessonRows, courseId, lessonId, body, dbOk) ==
    LET matching == {x \in lessonRows : x.id = lessonId /\ x.course_id = courseId}
        after == {IF x \in matching THEN UpdatedLesson(x, body) ELSE x :
                     x \in lessonRows}
    IN  IF /\ body.title.kind = "undefined"
           /\ body.videoUrl.kind = "undefined"
           /\ body.order_index.kind = "undefined"
        THEN Answer(400, "No fields to update", {}, lessonRows)
        ELSE IF \/ ~dbOk
                \/ body.order_index.kind # "undefined" /\ JsNumber(body.order_index).nan
                \/ body.title.kind \notin {"undefined", "string"} /\ matching # {}
        THEN Answer(500, "Internal server error", {}, lessonRows)
        ELSE Answer(200, "",
                    {x \in after : x.id = lessonId /\ x.course_id = courseId}, after)

\* router.put('/:courseId/lessons/:lessonId/video')
VideoPut(lessonRows, courseId, lessonId, videoUrl, dbOk) ==
    IF Falsy(videoUrl)
    THEN Answer(400, "videoUrl is required", {}, lessonRows)
    ELSE IF ~dbOk \/ videoUrl.kind # "string"
    THEN Answer(500, "Internal server error", {}, lessonRows)
    ELSE LET after == {IF x.id = lessonId /\ x.course_id = courseId
                       THEN [x EXCEPT !.video_url = videoUrl.str] ELSE x :
                          x \in lessonRows}
         IN  Answer(200, "",
                    {x \in after : x.id = lessonId /\ x.course_id = courseId}, after)

\* router.delete('/:courseId/lessons/:lessonId')
LessonDelete(lessonRows, courseId, lessonId, dbOk) ==
    IF ~dbOk
    THEN Answer(500, "Internal server error", {}, lessonRows)
    ELSE IF ~ \E x \in lessonRows : x.id = lessonId /\ x.course_id = courseId
    THEN Answer(404, "Lesson not found", {}, lessonRows)
    ELSE Answer(204, "", {},
                {x \in lessonRows : ~(x.id = lessonId /\ x.course_id = courseId)})

\* router.put('/:courseId'): body is { title } (description is handled as
\* title is); a course that does not exist matches no row.
CoursePut(courseRows, courseId, body, dbOk) ==
    IF body.title.kind = "undefined"
    THEN Answer(400, "No fields to update", {}, courseRows)
    ELSE IF \/ ~dbOk
            \/ body.title.kind # "string" /\ (\E c \in courseRows : c.id = courseId)
    THEN Answer(500, "Internal server error", {}, courseRows)
    ELSE LET after == {IF c.id = courseId THEN [c EXCEPT !.title = body.title.str]
                       ELSE c : c \in courseRows}
         IN  Answer(200, "", {c \in after : c.id = courseId}, after)

(***************************************************************************)
(* Table resources, the uploads directory and the resource routes.         *)
(***************************************************************************)
\* A row of table resources; lesson_id, saved_file_name and external_url are
\* nullable columns.
ResourceRow(id, courseId, lessonId, title, resourceType, savedFileName, externalUrl, uploadedBy) ==
    [id |-> id, course_id |-> courseId, lesson_id |-> lessonId, title |-> title,
     resource_type |-> resourceType, saved_file_name |-> savedFileName,
     external_url |-> externalUrl, uploaded_by |-> uploadedBy]

\* value || null for a field of the form.
OrNull(v) == IF Falsy(v) THEN SqlNull ELSE SqlText(v.str)

Letters == "abcdefghijklmnopqrstuvwxyz"

IsLetter(c) == \E i \in 1..Len(Letters) : SubSeq(Letters, i, i) = c

RECURSIVE StripSlashes(_)
StripSlashes(s) ==
    IF Len(s) > 0 /\ SubSeq(s, 1, 1) = "/" THEN StripSlashes(SubSeq(s, 2, Len(s)))
    ELSE s

\* new URL(s) does not throw: s opens with a scheme of letters and a colon,
\* and an http(s) URL names a host after its slashes.
IsValidUrl(s) ==
    \E i \in 2..Len(s) :
        /\ SubSeq(s, i, i) = ":"
        /\ \A j \in 1..(i - 1) : IsLetter(SubSeq(s, j, j))
        /\ SubSeq(s, 1, i - 1) \in {"http", "https"}
               => StripSlashes(SubSeq(s, i + 1, Len(s))) # ""

\* The tables and the directory a resource route works on.
Stored(resourceRows, blobs) == [resources |-> resourceRows, uploads |-> blobs]

\* The INSERT INTO resources fails on a foreign key that names no row.
ResourceInsertFails(courseRows, lessonRows, row, dbOk) ==
    \/ ~dbOk
    \/ ~ \E c \in courseRows : c.id = row.course_id
    \/ ~row.lesson_id.isNull /\ ~ \E x \in lessonRows : x.id = row.lesson_id.text

\* router.post('/'): body is the form { course_id, lesson_id, title,
\* resource_type, external_url }, file the original name of the uploaded file
\* or Undefined, resourceId and savedId the two values uuidv4 gives.  The
\* file is written to the uploads directory before the row is inserted.
ResourcePost(resourceRows, blobs, courseRows, lessonRows, body, file, userId, resourceId, savedId, dbOk) ==
    IF Falsy(body.course_id) \/ Falsy(body.title)
    THEN Answer(400, "course_id and title are required", {},
                Stored(resourceRows, blobs))
    ELSE LET resourceType ==
                 IF ~Falsy(body.resource_type) THEN body.resource_type.str
                 ELSE IF file.kind = "string" THEN "file" ELSE "url"
         IN  IF resourceType = "file"
             THEN IF file.kind # "string"
                  THEN Answer(400, "No file uploaded", {}, Stored(resourceRows, blobs))
                  ELSE LET savedFileName == savedId \o "-" \o file.str
                           row == ResourceRow(resourceId, body.course_id.str,
                                              OrNull(body.lesson_id), body.title.str,
                                              "file", SqlText(savedFileName),
                                              SqlNull, userId)
                       IN  IF ResourceInsertFails(courseRows, lessonRows, row, dbOk)
                           THEN Answer(500, "Failed to upload resource", {},
                                       Stored(resourceRows,
                                              blobs \cup {savedFileName}))
                           ELSE Answer(201, "", {row},
                                       Stored(resourceRows \cup {row},
                                              blobs \cup {savedFileName}))
             ELSE IF Falsy(body.external_url)
                  THEN Answer(400, "external_url is required for URL resources", {},
                              Stored(resourceRows, blobs))
                  ELSE IF ~IsValidUrl(body.external_url.str)
                  THEN Answer(400, "Invalid URL format", {},
                              Stored(resourceRows, blobs))
                  ELSE LET row == ResourceRow(resourceId, body.course_id.str,
                                              OrNull(body.lesson_id), body.title.str,
                                              "url", SqlNull,
                                              SqlText(body.external_url.str), userId)
                       IN  IF ResourceInsertFails(courseRows, lessonRows, row, dbOk)
                           THEN Answer(500, "Failed to upload resource", {},
                                       Stored(resourceRows, blobs))
                           ELSE Answer(201, "", {row},
                                       Stored(resourceRows \cup {row}, blobs))

\* A delete that answers 500 and keeps the row when the unlink fails (a
\* mutant).
ResourceDeleteUnlinkFatal(resourceRows, blobs, id, dbOk, unlinkOk) ==
    IF ~dbOk
    THEN Answer(500, "Failed to delete resource", {}, Stored(resourceRows, blobs))
    ELSE IF ~ \E r \in resourceRows : r.id = id
    THEN Answer(404, "Resource not found", {}, Stored(resourceRows, blobs))
    ELSE LET resource == CHOOSE r \in resourceRows : r.id = id
             isFile == /\ resource.resource_type # "url"
                       /\ ~resource.saved_file_name.isNull
         IN  IF isFile /\ ~unlinkOk
             THEN Answer(500, "Failed to delete resource", {},
                         Stored(resourceRows, blobs))
             ELSE Answer(200, "", {},
                         Stored({r \in resourceRows : r.id # id},
                                IF isFile
                                THEN blobs \ {resource.saved_file_name.text}
                                ELSE blobs))

\* router.delete('/:id'): the file of a file resource is unlinked first, an
\* error of the unlink being logged only (unlinkOk FALSE), then the row goes.
ResourceDelete(resourceRows, blobs, id, dbOk, unlinkOk) ==
    IF ~dbOk
    THEN Answer(500, "Failed to delete resource", {}, Stored(resourceRows, blobs))
    ELSE IF ~ \E r \in resourceRows : r.id = id
    THEN Answer(404, "Resource not found", {}, Stored(resourceRows, blobs))
    ELSE LET resource == CHOOSE r \in resourceRows : r.id = id
             unlinked == IF /\ resource.resource_type # "url"
                            /\ ~resource.saved_file_name.isNull
                            /\ unlinkOk
                         THEN blobs \ {resource.saved_file_name.text}
                         ELSE blobs
         IN  Answer(200, "", {},
                    Stored({r \in resourceRows : r.id # id}, unlinked))

\* The conditions router.get('/') appends to WHERE 1=1, each a test of a row.
CourseCondition(course_id) == [column |-> "course_id", value |-> course_id.str,
                               orNull |-> FALSE]

\* A condition on the lesson alone, without the course-level rows (a mutant).
LessonConditionExact(lesson_id) == [column |-> "lesson_id", value |-> lesson_id.str,
                                    orNull |-> FALSE]

\* AND (lesson_id = ? OR lesson_id IS NULL)
LessonCondition(lesson_id) == [column |-> "lesson_id", value |-> lesson_id.str,
                               orNull |-> TRUE]

Conditions(course_id, lesson_id) ==
    (IF Falsy(course_id) THEN <<>> ELSE <<CourseCondition(course_id)>>)
    \o (IF Falsy(lesson_id) THEN <<>> ELSE <<LessonCondition(lesson_id)>>)

\* A row passes a condition as SQL evaluates it: NULL = ? is not true.
Passes(row, condition) ==
    IF condition.column = "course_id" THEN row.course_id = condition.value
    ELSE \/ ~row.lesson_id.isNull /\ row.lesson_id.text = condition.value
         \/ condition.orNull /\ row.lesson_id.isNull

\* router.get('/'): course_id and lesson_id are the parameters of the query
\* string, Undefined when absent.
ResourcesGet(resourceRows, course_id, lesson_id, dbOk) ==
    LET where == Conditions(course_id, lesson_id)
    IN  IF ~dbOk
        THEN Answer(500, "Failed to fetch resources", {}, resourceRows)
        ELSE Answer(200, "",
                    {r \in resourceRows :
                        \A i \in 1..Len(where) : Passes(r, where[i])},
                    resourceRows)

(***************************************************************************)
(* The video section of CourseDetail: the shape of a lesson's videoUrl and *)
(* the address handed to the player.                                       *)
(***************************************************************************)
\* The first index at which `part` occurs in s, 0 when it does not.
IndexOf(s, part) ==
    LET hits == {i \in 1..(Len(s) - Len(part) + 1) :
                    SubSeq(s, i, i + Len(part) - 1) = part}
    IN  IF hits = {} THEN 0 ELSE CHOOSE i \in hits : \A j \in hits : i <= j

\* String.prototype.includes
Includes(s, part) == IndexOf(s, part) # 0

\* String.prototype.replace with a string pattern: the first occurrence.
Replace(s, part, with) ==
    LET i == IndexOf(s, part)
    IN  IF i = 0 THEN s
        ELSE SubSeq(s, 1, i - 1) \o with \o SubSeq(s, i + Len(part), Len(s))

\* s.split(sep)[0]
SplitHead(s, sep) ==
    LET i == IndexOf(s, sep)
    IN  IF i = 0 THEN s ELSE SubSeq(s, 1, i - 1)

\* s.split(sep)[1], for an s that includes sep.
SplitSecond(s, sep) ==
    SplitHead(SubSeq(s, IndexOf(s, sep) + Len(sep), Len(s)), sep)

\* s.split(sep).pop()
RECURSIVE SplitLast(_, _)
SplitLast(s, sep) ==
    LET i == IndexOf(s, sep)
    IN  IF i = 0 THEN s ELSE SplitLast(SubSeq(s, i + Len(sep), Len(s)), sep)

\* The chain of conditions of the video section, in its order.
VideoShape(videoUrl) ==
    IF Includes(videoUrl, "loom.com/share/") THEN "loom-share"
    ELSE IF Includes(videoUrl, "cdn.loom.com") \/ Includes(videoUrl, ".mp4")
    THEN "loom-cdn-or-mp4"
    ELSE IF Includes(videoUrl, "youtube.com") \/ Includes(videoUrl, "youtu.be")
    THEN "youtube"
    ELSE IF Includes(videoUrl, "vimeo.com") THEN "vimeo"
    ELSE "other"

\* The src of the YouTube iframe.
YoutubeSrc(videoUrl) ==
    IF Includes(videoUrl, "youtu.be/")
    THEN "https://www.youtube.com/embed/"
         \o SplitHead(SplitSecond(videoUrl, "youtu.be/"), "?")
    ELSE IF Includes(videoUrl, "watch?v=")
    THEN SplitHead(Replace(videoUrl, "watch?v=", "embed/"), "&")
    ELSE Replace(videoUrl, "youtu.be/", "youtube.com/embed/")

\* The src of the iframe or of the video element; the placeholder has none.
VideoSrc(videoUrl) ==
    LET shape == VideoShape(videoUrl)
    IN  IF shape = "loom-share"
        THEN Replace(videoUrl, "loom.com/share/", "loom.com/embed/")
        ELSE IF shape = "loom-cdn-or-mp4" THEN videoUrl
        ELSE IF shape = "youtube" THEN YoutubeSrc(videoUrl)
        ELSE IF shape = "vimeo"
        THEN "https://player.vimeo.com/video/" \o SplitLast(videoUrl, "/")
        ELSE ""

\* What the section renders for a lesson: nothing without a videoUrl.
Player(videoUrl) ==
    IF videoUrl = "" THEN [url |-> "", shape |-> "none", src |-> ""]
    ELSE [url |-> videoUrl, shape |-> VideoShape(videoUrl),
          src |-> VideoSrc(videoUrl)]

(***************************************************************************)
(* The AdminCourseEdit page: the lesson list it holds and moveLesson.      *)
(***************************************************************************)
\* The browsers that have the page open, each logged in as the seeded admin.
Admins == {"a1", "a2"}

NoLesson == LessonRow("", "", "", "", 0)

\* The lists GET /courses/:courseId can answer: the course's rows ORDER BY
\* order_index, rows of equal order in any order.
OrderedLists(lessonRows, courseId) ==
    LET rows == LessonsIn(lessonRows, courseId)
        n == Cardinality(rows)
    IN  {list \in [1..n -> rows] :
            /\ \A i \in 1..n : \A j \in 1..n : list[i] = list[j] => i = j
            /\ \A i \in 1..n : \A j \in 1..n :
                   i < j => list[i].order_index <= list[j].order_index}

\* list with x put before its first element of a greater order_index.
RECURSIVE InsertByOrderIndex(_, _)
InsertByOrderIndex(list, x) ==
    IF list = <<>> THEN <<x>>
    ELSE IF Head(list).order_index > x.order_index THEN <<x>> \o list
    ELSE <<Head(list)>> \o InsertByOrderIndex(Tail(list), x)

\* [...lessons].sort((a, b) => a.order_index - b.order_index): the sort is
\* stable, rows of equal order keep the order of the list.
RECURSIVE SortByOrderIndex(_)
SortByOrderIndex(list) ==
    IF list = <<>> THEN <<>>
    ELSE InsertByOrderIndex(SortByOrderIndex(SubSeq(list, 1, Len(list) - 1)),
                            list[Len(list)])

\* sorted.findIndex((l) => l.id === lessonId), counted from 0; -1 for none.
FindIndex(list, lessonId) ==
    IF \E i \in 1..Len(list) : list[i].id = lessonId
    THEN (CHOOSE i \in 1..Len(list) :
              /\ list[i].id = lessonId
              /\ \A j \in 1..(i - 1) : list[j].id # lessonId) - 1
    ELSE -1

\* A neighbour taken around the ends of the list (a mutant).
MovePlanWrapping(lessonList, lessonId, direction) ==
    LET sorted == SortByOrderIndex(lessonList)
        idx == FindIndex(sorted, lessonId)
        swapIdx == IF direction = "up"
                   THEN (idx - 1 + Len(sorted)) % Len(sorted)
                   ELSE (idx + 1) % Len(sorted)
    IN  IF idx < 0
        THEN [return |-> TRUE, a |-> NoLesson, b |-> NoLesson]
        ELSE [return |-> FALSE, a |-> sorted[idx + 1], b |-> sorted[swapIdx + 1]]

\* The synchronous part of moveLesson: the two rows to exchange, or the
\* early return.
MovePlan(lessonList, lessonId, direction) ==
    LET sorted == SortByOrderIndex(lessonList)
        idx == FindIndex(sorted, lessonId)
        swapIdx == IF direction = "up" THEN idx - 1 ELSE idx + 1
    IN  IF idx < 0 \/ swapIdx < 0 \/ swapIdx >= Len(sorted)
        THEN [return |-> TRUE, a |-> NoLesson, b |-> NoLesson]
        ELSE [return |-> FALSE, a |-> sorted[idx + 1], b |-> sorted[swapIdx + 1]]

\* ApiClient.request as updateLesson uses it: { error } when fetch throws,
\* when the status is not ok, or when the body is not JSON (the empty body
\* the update route sends for a lesson it did not find).
UpdateLessonError(answer, fault) ==
    IF fault = "network" THEN "Network error"
    ELSE IF answer.status # 200 THEN answer.error
    ELSE IF answer.data = {} THEN "Server error: 200 OK"
    ELSE ""

\* The body of the update moveLesson sends: { order_index }.
OrderBody(orderIndex) ==
    [title |-> Undefined, videoUrl |-> Undefined, order_index |-> Num(orderIndex)]

\* The second update sending the row's own order back (a mutant).
SecondOrderBodyOwn(a, b) == OrderBody(b.order_index)

\* The body of moveLesson's second update, of row b: { order_index: a.order_index }.
SecondOrderBody(a, b) == OrderBody(a.order_index)

\* if (resB.error) setError(resB.error): the error the page shows after the
\* two updates, the first response being dropped.
ErrorShown(errorA, errorB) == errorB

\* The page between two renders: the lesson list, the error banner, the
\* saving flag, where moveLesson stands, the two rows it took from the list,
\* and, for the record, whether its first update succeeded and the rows of
\* the table when it started.
Page(courseId, lessonList, error) ==
    [courseId |-> courseId, lessons |-> lessonList, error |-> error,
     saving |-> FALSE, pc |-> "idle", a |-> NoLesson, b |-> NoLesson,
     errorA |-> "", start |-> {}]

(***************************************************************************)
(* Operations.                                                             *)
(***************************************************************************)
\* The record of an operation: its name, arguments and result, how the async
\* function settled for its caller (every handler catches what it throws),
\* and how many successful completions of the same lesson end with it.
Op(name, userId, courseId, lessonId, ok, prev) ==
    LET repeated == /\ name \in {"markLessonComplete", "setTrue"}
                    /\ ok /\ prev.ok /\ prev.op = name /\ prev.userId = userId
                    /\ prev.courseId = courseId /\ prev.lessonId = lessonId
    IN  [op |-> name, userId |-> userId, courseId |-> courseId,
         lessonId |-> lessonId, ok |-> ok, outcome |-> "resolved",
         streak |-> IF repeated /\ prev.streak < MaxStreak THEN prev.streak + 1
                    ELSE IF repeated THEN MaxStreak
                    ELSE 1]

NoOp == [op |-> "init", userId |-> "", courseId |-> "", lessonId |-> "",
         ok |-> TRUE, outcome |-> "resolved", streak |-> 1]

\* A request of an authenticated user to the progress route.
SetCompletion(userId, courseId, lessonId, completed, ts, dbOk) ==
    LET res == PostProgress(course_progress, lessons, userId, courseId,
                            lessonId, completed, ts, dbOk)
    IN  /\ Cardinality(res.rows) <= MaxRows
        /\ course_progress' = res.rows
        /\ lastOp' = Op(IF completed THEN "setTrue" ELSE "setFalse",
                        userId, courseId, lessonId, res.status = 200, lastOp)
        /\ UNCHANGED <<lessons, courses, progress>>
        /\ reply' = NoReply
        /\ UNCHANGED toggles
        /\ UNCHANGED fnVars
        /\ UNCHANGED contentVars

\* LessonDetail renders the toggle button only for a lesson of `courses`.
LessonShown(courseId, lessonId) ==
    /\ courseId \in DOMAIN courses
    /\ lessonId \in courses[courseId]

\* markLessonComplete(courseId, lessonId) of the logged-in user.
MarkLessonComplete(courseId, lessonId, ts, fault) ==
    LET response == UpdateLessonProgress(course_progress, lessons, courseId,
                                         lessonId, TRUE, ts, fault)
    IN  /\ LessonShown(courseId, lessonId)
        /\ course_progress' = response.rows
        /\ progress' = IF response.error # ""
                       THEN progress
                       ELSE CompleteLocally(progress, courses, courseId, lessonId)
        /\ lastOp' = Op("markLessonComplete", ClientUser, courseId, lessonId,
                        response.error = "", lastOp)
        /\ UNCHANGED <<lessons, courses>>
        /\ reply' = NoReply
        /\ UNCHANGED toggles
        /\ UNCHANGED fnVars
        /\ UNCHANGED contentVars

\* markLessonIncomplete(courseId, lessonId) of the logged-in user.
MarkLessonIncomplete(courseId, lessonId, fault) ==
    LET response == UpdateLessonProgress(course_progress, lessons, courseId,
                                         lessonId, FALSE, NULL, fault)
    IN  /\ LessonShown(courseId, lessonId)
        /\ course_progress' = response.rows
        /\ progress' = IF response.error # ""
                       THEN progress
                       ELSE IncompleteLocally(progress, courses, courseId, lessonId)
        /\ lastOp' = Op("markLessonIncomplete", ClientUser, courseId, lessonId,
                        response.error = "", lastOp)
        /\ UNCHANGED <<lessons, courses>>
        /\ reply' = NoReply
        /\ UNCHANGED toggles
        /\ UNCHANGED fnVars
        /\ UNCHANGED contentVars

\* loadCourses: GET /courses, then setCourses; an error leaves `courses`.
LoadCourses(ok) ==
    /\ courses' = IF ok
                  THEN [c \in CourseIds |-> LessonIdsOf(lessons, c)]
                  ELSE courses
    /\ lastOp' = Op("loadCourses", ClientUser, "", "", ok, lastOp)
    /\ UNCHANGED <<lessons, course_progress, progress>>
    /\ reply' = NoReply
    /\ UNCHANGED toggles
    /\ UNCHANGED fnVars
    /\ UNCHANGED contentVars

\* loadProgress: GET /courses/progress/all, then setProgress(progressMap).
LoadProgress(ok) ==
    /\ progress' = IF ok
                   THEN ProgressMap(courses, GetAllProgress(course_progress, ClientUser))
                   ELSE progress
    /\ lastOp' = Op("loadProgress", ClientUser, "", "", ok, lastOp)
    /\ UNCHANGED <<lessons, course_progress, courses>>
    /\ reply' = NoReply
    /\ UNCHANGED toggles
    /\ UNCHANGED fnVars
    /\ UNCHANGED contentVars

(***************************************************************************)
(* The toggle button of LessonDetail, step by step.  markLessonComplete    *)
(* and markLessonIncomplete await the request, and the button stays        *)
(* enabled meanwhile, so several requests can be in flight: each is sent,  *)
(* served by the progress route, and returns to the updater that follows   *)
(* the await.                                                              *)
(***************************************************************************)
\* isCompleted of LessonDetail: getCourseProgress(courseId).lessonProgress[lessonId] === true
IsCompleted(clientCourses, prog, courseId, lessonId) ==
    LET lessonProgress == CalculateProgress(clientCourses, prog, courseId).lessonProgress
    IN  lessonId \in DOMAIN lessonProgress /\ lessonProgress[lessonId]

\* How many of the requests the server has handled, and how many have returned.
ServedCount(requests) == Cardinality({t \in requests : t.served > 0})
ReturnedCount(requests) == Cardinality({t \in requests : t.returned > 0})

\* handleToggleComplete up to the await of api.updateLessonProgress.
ToggleSend(courseId, lessonId) ==
    /\ LessonShown(courseId, lessonId)
    /\ Cardinality(toggles) < MaxToggles
    /\ toggles' = toggles \cup
           {[n |-> Cardinality(toggles) + 1, courseId |-> courseId,
             lessonId |-> lessonId,
             completed |-> ~IsCompleted(courses, progress, courseId, lessonId),
             phase |-> "sent", error |-> "", served |-> 0, returned |-> 0]}
    /\ lastOp' = Op("toggleSend", ClientUser, courseId, lessonId, TRUE, lastOp)
    /\ reply' = NoReply
    /\ UNCHANGED fnVars
    /\ UNCHANGED <<lessons, course_progress, courses, progress>>
    /\ UNCHANGED contentVars

\* The progress route handles one of the requests in flight, in any order;
\* a network fault answers the client without reaching the route.
ToggleServe(n, ts, fault) ==
    \E t \in toggles :
        LET response == UpdateLessonProgress(course_progress, lessons, t.courseId,
                                             t.lessonId, t.completed,
                                             IF t.completed THEN ts ELSE NULL, fault)
        IN  /\ t.n = n
            /\ t.phase = "sent"
            /\ course_progress' = response.rows
            /\ toggles' = (toggles \ {t}) \cup
                   {[t EXCEPT !.phase = "served", !.error = response.error,
                              !.served = IF fault = "network" THEN 0
                                         ELSE ServedCount(toggles) + 1]}
            /\ lastOp' = Op("toggleServe", ClientUser, t.courseId, t.lessonId,
                            response.error = "", lastOp)
            /\ reply' = NoReply
            /\ UNCHANGED fnVars
            /\ UNCHANGED <<lessons, courses, progress>>
            /\ UNCHANGED contentVars

\* The response of one request arrives, in any order: the rest of
\* markLessonComplete or markLessonIncomplete after the await.
ToggleReturn(n) ==
    \E t \in toggles :
        /\ t.n = n
        /\ t.phase = "served"
        /\ progress' = IF t.error # "" THEN progress
                       ELSE IF t.completed
                       THEN CompleteLocally(progress, courses, t.courseId, t.lessonId)
                       ELSE IncompleteLocally(progress, courses, t.courseId, t.lessonId)
        /\ toggles' = (toggles \ {t}) \cup
               {[t EXCEPT !.phase = "returned",
                          !.returned = ReturnedCount(toggles) + 1]}
        /\ lastOp' = Op("toggleReturn", ClientUser, t.courseId, t.lessonId,
                        t.error = "", lastOp)
        /\ reply' = NoReply
        /\ UNCHANGED fnVars
        /\ UNCHANGED <<lessons, course_progress, courses>>
        /\ UNCHANGED contentVars

(***************************************************************************)
(* The serverless function: the module's initialization state and the      *)
(* handler that wraps the application.  JavaScript runs each piece between *)
(* two awaits without interruption, so a step is the code from one await   *)
(* to the next.                                                            *)
(***************************************************************************)
\* An ensureDatabaseInitialized that does not look at dbInitPromise (a mutant).
EnsureDatabaseInitializedUnshared(initialized, promise, runs) ==
    IF initialized THEN [promise |-> promise, runs |-> runs, awaits |-> 0]
    ELSE [promise |-> Len(runs) + 1, runs |-> Append(runs, "pending"),
          awaits |-> Len(runs) + 1]

\* ensureDatabaseInitialized() up to its return: nothing to await when
\* dbInitialized, the promise in dbInitPromise when there is one, else a new
\* promise, whose function has called initDatabase() and awaits it.
EnsureDatabaseInitialized(initialized, promise, runs) ==
    IF initialized THEN [promise |-> promise, runs |-> runs, awaits |-> 0]
    ELSE IF promise # 0 THEN [promise |-> promise, runs |-> runs, awaits |-> promise]
    ELSE [promise |-> Len(runs) + 1, runs |-> Append(runs, "pending"),
          awaits |-> Len(runs) + 1]

\* What wrappedHandler does with the request once the promise it awaited
\* has settled: serverlessHandler(event, context), or the 500 response
\* 'Database initialization failed'.
AfterInitialization(status) == IF status = "resolved" THEN "app" ELSE "failed"

\* wrappedHandler(event, context) up to its first await: a health check goes
\* to the application at once, any other request waits for
\* ensureDatabaseInitialized().
WrappedHandler(health) ==
    LET ensured == EnsureDatabaseInitialized(dbInitialized, dbInitPromise, initRuns)
        n == Cardinality(invocations) + 1
    IN  /\ n <= MaxRequests
        /\ Len(ensured.runs) <= MaxRuns
        /\ IF health
           THEN /\ invocations' = invocations \cup
                       {[n |-> n, health |-> TRUE, pc |-> "app", awaits |-> 0]}
                /\ UNCHANGED <<dbInitPromise, initRuns>>
           ELSE /\ invocations' = invocations \cup
                       {[n |-> n, health |-> FALSE,
                         pc |-> IF ensured.awaits = 0 THEN "app" ELSE "awaiting",
                         awaits |-> ensured.awaits]}
                /\ dbInitPromise' = ensured.promise
                /\ initRuns' = ensured.runs
        /\ lastOp' = Op(IF health THEN "healthCheck" ELSE "request", "", "", "",
                        TRUE, lastOp)
        /\ reply' = NoReply
        /\ UNCHANGED <<lessons, course_progress, courses, progress, toggles,
                       dbInitialized>>
        /\ UNCHANGED contentVars

\* initDatabase() of the k-th call settles: the function of the promise
\* sets dbInitialized and resolves, or logs the error and rejects.
InitDatabaseSettles(k, ok) ==
    /\ k \in 1..Len(initRuns)
    /\ initRuns[k] = "pending"
    /\ initRuns' = [initRuns EXCEPT ![k] = IF ok THEN "resolved" ELSE "rejected"]
    /\ dbInitialized' = (dbInitialized \/ ok)
    /\ lastOp' = Op("initDatabase", "", "", "", ok, lastOp)
    /\ reply' = NoReply
    /\ UNCHANGED <<lessons, course_progress, courses, progress, toggles,
                   dbInitPromise, invocations>>
    /\ UNCHANGED contentVars

\* wrappedHandler after its await, once the promise has settled.
HandlerResumes(n) ==
    \E i \in invocations :
        /\ i.n = n
        /\ i.pc = "awaiting"
        /\ initRuns[i.awaits] # "pending"
        /\ invocations' = (invocations \ {i}) \cup
               {[i EXCEPT !.pc = AfterInitialization(initRuns[i.awaits])]}
        /\ lastOp' = Op("resume", "", "", "", initRuns[i.awaits] = "resolved", lastOp)
        /\ reply' = NoReply
        /\ UNCHANGED <<lessons, course_progress, courses, progress, toggles,
                       dbInitialized, dbInitPromise, initRuns>>
        /\ UNCHANGED contentVars

\* The seeded admin's token.
AdminToken == TokenOf(DefaultUserId)

\* The answer of a middleware that did not call next().
Refused(status, rows) ==
    Answer(status,
           IF status = 401 THEN "Access token required"
           ELSE "Admin access required or invalid token",
           {}, rows)

\* A DELETE /:courseId/lessons/:lessonId request; the rows of course_progress
\* and of resources that reference the lesson go with it (ON DELETE CASCADE).
DeleteLessonRequest(token, courseId, lessonId, dbOk) ==
    LET gate == Gate(users, token, TRUE)
        answer == IF gate # 200 THEN Refused(gate, lessons)
                  ELSE LessonDelete(lessons, courseId, lessonId, dbOk)
    IN  /\ lessons' = answer.rows
        /\ course_progress' = IF answer.status = 204
                              THEN CascadeDelete(course_progress, lessonId)
                              ELSE course_progress
        /\ resources' = IF answer.status = 204
                        THEN {r \in resources : r.lesson_id # SqlText(lessonId)}
                        ELSE resources
        /\ reply' = ReplyOf(answer)
        /\ UNCHANGED toggles
        /\ UNCHANGED fnVars
        /\ lastOp' = Op("deleteLesson", token.userId, courseId, lessonId,
                        answer.status = 204, lastOp)
        /\ UNCHANGED <<courses, progress, users, courses_table, uploads,
                       adminPage, player>>

\* DELETE /:courseId/lessons/:lessonId by an admin, for a lesson of the course.
DeleteLesson(courseId, lessonId) ==
    /\ \E x \in lessons : x.id = lessonId /\ x.course_id = courseId
    /\ DeleteLessonRequest(AdminToken, courseId, lessonId, TRUE)

\* A POST /:courseId/lessons request.
CreateLessonRequest(token, courseId, body, uuid, dbOk) ==
    LET gate == Gate(users, token, TRUE)
        answer == IF gate # 200 THEN Refused(gate, lessons)
                  ELSE LessonPost(lessons, courses_table, courseId, body, uuid, dbOk)
    IN  /\ lessons' = answer.rows
        /\ reply' = ReplyOf(answer)
        /\ UNCHANGED toggles
        /\ UNCHANGED fnVars
        /\ lastOp' = Op("createLesson", token.userId, courseId,
                        IF body.id.kind = "string" THEN body.id.str ELSE "",
                        answer.status = 201, lastOp)
        /\ UNCHANGED <<course_progress, courses, progress, users, courses_table,
                       resources, uploads, adminPage, player>>

\* POST /:courseId/lessons by an admin with an id no lesson has.
CreateLesson(courseId, lessonId) ==
    /\ courseId \in CourseIds
    /\ ~ \E x \in lessons : x.id = lessonId
    /\ CreateLessonRequest(AdminToken, courseId,
                           [title |-> Str("Lesson"), video_url |-> Undefined,
                            order_index |-> Num(1), id |-> Str(lessonId)],
                           "", TRUE)

\* A PUT /:courseId/lessons/:lessonId request.
UpdateLessonRequest(token, courseId, lessonId, body, dbOk) ==
    LET gate == Gate(users, token, TRUE)
        answer == IF gate # 200 THEN Refused(gate, lessons)
                  ELSE LessonPut(lessons, courseId, lessonId, body, dbOk)
    IN  /\ lessons' = answer.rows
        /\ reply' = ReplyOf(answer)
        /\ UNCHANGED toggles
        /\ UNCHANGED fnVars
        /\ lastOp' = Op("updateLesson", token.userId, "", "",
                        answer.status = 200, lastOp)
        /\ UNCHANGED <<course_progress, courses, progress, users, courses_table,
                       resources, uploads, adminPage, player>>

\* A PUT /:courseId/lessons/:lessonId/video request.
UpdateLessonVideoRequest(token, courseId, lessonId, videoUrl, dbOk) ==
    LET gate == Gate(users, token, TRUE)
        answer == IF gate # 200 THEN Refused(gate, lessons)
                  ELSE VideoPut(lessons, courseId, lessonId, videoUrl, dbOk)
    IN  /\ lessons' = answer.rows
        /\ reply' = ReplyOf(answer)
        /\ UNCHANGED toggles
        /\ UNCHANGED fnVars
        /\ lastOp' = Op("updateLessonVideo", token.userId, "", "",
                        answer.status = 200, lastOp)
        /\ UNCHANGED <<course_progress, courses, progress, users, courses_table,
                       resources, uploads, adminPage, player>>

\* A PUT /:courseId request.
UpdateCourseRequest(token, courseId, body, dbOk) ==
    LET gate == Gate(users, token, TRUE)
        answer == IF gate # 200 THEN Refused(gate, courses_table)
                  ELSE CoursePut(courses_table, courseId, body, dbOk)
    IN  /\ courses_table' = answer.rows
        /\ reply' = ReplyOf(answer)
        /\ UNCHANGED toggles
        /\ UNCHANGED fnVars
        /\ lastOp' = Op("updateCourse", token.userId, "", "",
                        answer.status = 200, lastOp)
        /\ UNCHANGED <<lessons, course_progress, courses, progress, users,
                       resources, uploads, adminPage, player>>

\* A POST /resources request.
CreateResourceRequest(token, body, file, resourceId, savedId, dbOk) ==
    LET gate == Gate(users, token, TRUE)
        answer == IF gate # 200 THEN Refused(gate, Stored(resources, uploads))
                  ELSE ResourcePost(resources, uploads, courses_table, lessons,
                                    body, file, token.userId, resourceId,
                                    savedId, dbOk)
    IN  /\ resources' = answer.rows.resources
        /\ uploads' = answer.rows.uploads
        /\ reply' = ReplyOf(answer)
        /\ UNCHANGED toggles
        /\ UNCHANGED fnVars
        /\ lastOp' = Op("createResource", token.userId, "", "",
                        answer.status = 201, lastOp)
        /\ UNCHANGED <<lessons, course_progress, courses, progress, users,
                       courses_table, adminPage, player>>

\* A DELETE /resources/:id request.
DeleteResourceRequest(token, id, dbOk, unlinkOk) ==
    LET gate == Gate(users, token, TRUE)
        answer == IF gate # 200 THEN Refused(gate, Stored(resources, uploads))
                  ELSE ResourceDelete(resources, uploads, id, dbOk, unlinkOk)
    IN  /\ resources' = answer.rows.resources
        /\ uploads' = answer.rows.uploads
        /\ reply' = ReplyOf(answer)
        /\ UNCHANGED toggles
        /\ UNCHANGED fnVars
        /\ lastOp' = Op("deleteResource", token.userId, "", "",
                        answer.status = 200, lastOp)
        /\ UNCHANGED <<lessons, course_progress, courses, progress, users,
                       courses_table, adminPage, player>>

\* The uploads directory is /tmp/uploads on the serverless host: a new
\* instance starts without the files an earlier one wrote.
WipeUploads ==
    /\ uploads # {}
    /\ uploads' = {}
    /\ lastOp' = Op("wipeUploads", "", "", "", TRUE, lastOp)
    /\ reply' = NoReply
    /\ UNCHANGED toggles
    /\ UNCHANGED fnVars
    /\ UNCHANGED <<lessons, course_progress, courses, progress, users,
                   courses_table, resources, adminPage, player>>

\* A GET /resources request: authenticateToken only.
ListResourcesRequest(token, course_id, lesson_id, dbOk) ==
    LET gate == Gate(users, token, FALSE)
        answer == IF gate # 200 THEN Refused(gate, resources)
                  ELSE ResourcesGet(resources, course_id, lesson_id, dbOk)
    IN  /\ reply' = ReplyOf(answer)
        /\ UNCHANGED toggles
        /\ UNCHANGED fnVars
        /\ lastOp' = Op("getResources", token.userId, "", "",
                        answer.status = 200, lastOp)
        /\ UNCHANGED <<lessons, course_progress, courses, progress, users,
                       courses_table, resources, uploads, adminPage, player>>

\* CourseDetail renders the video section of the selected lesson.
RenderVideo(courseId, lessonId) ==
    /\ \E x \in lessons :
           /\ x.id = lessonId /\ x.course_id = courseId
           /\ player' = Player(x.video_url)
    /\ lastOp' = Op("renderVideo", ClientUser, courseId, lessonId, TRUE, lastOp)
    /\ reply' = NoReply
    /\ UNCHANGED toggles
    /\ UNCHANGED fnVars
    /\ UNCHANGED <<lessons, course_progress, courses, progress, users,
                   courses_table, resources, uploads, adminPage>>

\* moveLesson(lessonId, direction) up to its first await, in the page of an
\* admin: the early return, or the two rows taken and the first update sent.
MoveLesson(admin, lessonId, direction) ==
    LET page == adminPage[admin]
        plan == MovePlan(page.lessons, lessonId, direction)
    IN  /\ page.pc = "idle"
        /\ adminPage' =
               IF plan.return THEN adminPage
               ELSE [adminPage EXCEPT ![admin] =
                        [page EXCEPT !.saving = TRUE, !.error = "",
                                     !.pc = "first", !.a = plan.a, !.b = plan.b,
                                     !.errorA = "", !.start = lessons]]
        /\ lastOp' = Op(IF direction = "up" THEN "moveLessonUp" ELSE "moveLessonDown",
                        admin, page.courseId, lessonId, TRUE, lastOp)
        /\ UNCHANGED <<lessons, course_progress, courses, progress, users,
                       courses_table, resources, uploads, player>>
        /\ reply' = NoReply
        /\ UNCHANGED toggles
        /\ UNCHANGED fnVars

\* The first update of moveLesson reaches the server (or, with a network
\* fault, does not) and its response the page, which sends the second.
MoveWriteFirst(admin, fault) ==
    LET page == adminPage[admin]
        gate == Gate(users, AdminToken, TRUE)
        answer == IF gate # 200 THEN Refused(gate, lessons)
                  ELSE LessonPut(lessons, page.courseId, page.a.id,
                                 OrderBody(page.b.order_index), fault # "db")
    IN  /\ page.pc = "first"
        /\ lessons' = IF fault = "network" THEN lessons ELSE answer.rows
        /\ reply' = IF fault = "network" THEN NoReply ELSE ReplyOf(answer)
        /\ UNCHANGED toggles
        /\ UNCHANGED fnVars
        /\ adminPage' = [adminPage EXCEPT ![admin] =
                            [page EXCEPT !.pc = "second",
                                         !.errorA = UpdateLessonError(answer, fault)]]
        /\ lastOp' = Op("moveWriteFirst", admin, page.courseId, page.a.id,
                        UpdateLessonError(answer, fault) = "", lastOp)
        /\ UNCHANGED <<course_progress, courses, progress, users, courses_table,
                       resources, uploads, player>>

\* A second update whose failure undoes the first (a mutant).
MoveWriteSecondRollingBack(admin, fault) ==
    LET page == adminPage[admin]
        gate == Gate(users, AdminToken, TRUE)
        answer == IF gate # 200 THEN Refused(gate, lessons)
                  ELSE LessonPut(lessons, page.courseId, page.b.id,
                                 SecondOrderBody(page.a, page.b), fault # "db")
        errorB == UpdateLessonError(answer, fault)
    IN  /\ page.pc = "second"
        /\ lessons' = IF errorB # "" THEN page.start ELSE answer.rows
        /\ reply' = IF fault = "network" THEN NoReply ELSE ReplyOf(answer)
        /\ UNCHANGED toggles
        /\ UNCHANGED fnVars
        /\ adminPage' = [adminPage EXCEPT ![admin] =
                            [page EXCEPT !.pc = "idle", !.saving = FALSE,
                                         !.error = IF errorB # ""
                                                   THEN ErrorShown(page.errorA, errorB)
                                                   ELSE page.error]]
        /\ lastOp' = Op("moveWriteSecond", admin, page.courseId, page.b.id,
                        errorB = "", lastOp)
        /\ UNCHANGED <<course_progress, courses, progress, users, courses_table,
                       resources, uploads, player>>

\* The second update of moveLesson and what follows it: setSaving(false),
\* then the error of the second response, or none.
MoveWriteSecond(admin, fault) ==
    LET page == adminPage[admin]
        gate == Gate(users, AdminToken, TRUE)
        answer == IF gate # 200 THEN Refused(gate, lessons)
                  ELSE LessonPut(lessons, page.courseId, page.b.id,
                                 SecondOrderBody(page.a, page.b), fault # "db")
        errorB == UpdateLessonError(answer, fault)
    IN  /\ page.pc = "second"
        /\ lessons' = IF fault = "network" THEN lessons ELSE answer.rows
        /\ reply' = IF fault = "network" THEN NoReply ELSE ReplyOf(answer)
        /\ UNCHANGED toggles
        /\ UNCHANGED fnVars
        /\ adminPage' = [adminPage EXCEPT ![admin] =
                            [page EXCEPT !.pc = "idle", !.saving = FALSE,
                                         !.error = IF errorB # ""
                                                   THEN ErrorShown(page.errorA, errorB)
                                                   ELSE page.error]]
        /\ lastOp' = Op("moveWriteSecond", admin, page.courseId, page.b.id,
                        errorB = "", lastOp)
        /\ UNCHANGED <<course_progress, courses, progress, users, courses_table,
                       resources, uploads, player>>

\* refreshCourse: GET /courses/:courseId, then setCourse with its lessons.
RefreshCourse(admin) ==
    LET page == adminPage[admin]
    IN  /\ page.pc = "idle"
        /\ \E list \in OrderedLists(lessons, page.courseId) :
               adminPage' = [adminPage EXCEPT ![admin].lessons = list]
        /\ lastOp' = Op("refreshCourse", admin, page.courseId, "", TRUE, lastOp)
        /\ UNCHANGED <<lessons, course_progress, courses, progress, users,
                       courses_table, resources, uploads, player>>
        /\ reply' = NoReply
        /\ UNCHANGED toggles
        /\ UNCHANGED fnVars

(***************************************************************************)
(* Spec: the CourseProvider of one user against the server, with an admin  *)
(* deleting lessons.                                                       *)
(***************************************************************************)
\* The users insertDefaultUser and a signup leave, the courses
\* insertSampleData leaves, no resource, no page open, nothing rendered.
SeedUsers == {[id |-> DefaultUserId, is_admin |-> TRUE],
              [id |-> SignupUserId, is_admin |-> FALSE]}

SeedCourses == {[id |-> c, title |-> "Course"] : c \in CourseIds}

NoPlayer == Player("")

InitContent ==
    /\ users = SeedUsers
    /\ courses_table = SeedCourses
    /\ resources = {}
    /\ uploads = {}
    /\ adminPage = [a \in Admins |-> Page("1", <<>>, "")]
    /\ player = NoPlayer
    /\ reply = NoReply
    /\ toggles = {}
    /\ dbInitialized = FALSE
    /\ dbInitPromise = 0
    /\ initRuns = <<>>
    /\ invocations = {}

SeedLessons ==
    {LessonRow("1-1", "1", "Lesson", "", 1), LessonRow("1-2", "1", "Lesson", "", 2),
     LessonRow("11-1", "11", "Lesson", "", 1)}

LessonIds == {x.id : x \in SeedLessons}

Init ==
    /\ lessons = SeedLessons
    /\ course_progress = {}
    /\ courses = [c \in {} |-> {}]
    /\ progress = [c \in {} |-> {}]
    /\ lastOp = NoOp
    /\ InitContent

Next ==
    \/ \E c \in CourseIds, l \in LessonIds, ts \in Timestamps, f \in Faults :
           MarkLessonComplete(c, l, ts, f)
    \/ \E c \in CourseIds, l \in LessonIds, f \in Faults :
           MarkLessonIncomplete(c, l, f)
    \/ \E ok \in BOOLEAN : LoadCourses(ok)
    \/ \E ok \in BOOLEAN : LoadProgress(ok)
    \/ \E c \in CourseIds, l \in LessonIds : DeleteLesson(c, l)

Spec == Init /\ [][Next]_vars

(***************************************************************************)
(* SpecStore: the progress route called by every user, with an admin       *)
(* deleting and creating lessons (a lesson id can move to another course). *)
(***************************************************************************)
StoreSeedLessons ==
    {LessonRow("1-1", "1", "Lesson", "", 1), LessonRow("11-1", "11", "Lesson", "", 1)}

StoreLessonIds == {"1-1", "11-1"}

InitStore ==
    /\ lessons = StoreSeedLessons
    /\ course_progress = {}
    /\ courses = [c \in {} |-> {}]
    /\ progress = [c \in {} |-> {}]
    /\ lastOp = NoOp
    /\ InitContent

NextStore ==
    \/ \E u \in UserIds, c \in CourseIds, l \in StoreLessonIds :
           SetCompletion(u, c, l, TRUE, 1, TRUE)
    \/ \E u \in UserIds, c \in CourseIds, l \in StoreLessonIds :
           SetCompletion(u, c, l, FALSE, NULL, TRUE)
    \/ \E c \in CourseIds, l \in StoreLessonIds : DeleteLesson(c, l)
    \/ \E c \in CourseIds, l \in StoreLessonIds : CreateLesson(c, l)

SpecStore == InitStore /\ [][NextStore]_vars

(***************************************************************************)
(* SpecCourse: one user in the seeded course "1" with its four lessons,    *)
(* no request failing.                                                     *)
(***************************************************************************)
CourseSeedLessons ==
    {LessonRow("1-1", "1", "Lesson", "", 1), LessonRow("1-2", "1", "Lesson", "", 2),
     LessonRow("1-3", "1", "Lesson", "", 3), LessonRow("1-4", "1", "Lesson", "", 4)}

CourseLessonIds == {x.id : x \in CourseSeedLessons}

InitCourse ==
    /\ lessons = CourseSeedLessons
    /\ course_progress = {}
    /\ courses = [c \in {} |-> {}]
    /\ progress = [c \in {} |-> {}]
    /\ lastOp = NoOp
    /\ InitContent

NextCourse ==
    \/ \E l \in CourseLessonIds : MarkLessonComplete("1", l, 1, "none")
    \/ \E l \in CourseLessonIds : MarkLessonIncomplete("1", l, "none")
    \/ LoadCourses(TRUE)
    \/ LoadProgress(TRUE)
    \/ \E l \in CourseLessonIds : DeleteLesson("1", l)

SpecCourse == InitCourse /\ [][NextCourse]_vars

(***************************************************************************)
(* SpecOrder: one admin reordering the three lessons of course "1" on the  *)
(* AdminCourseEdit page, the updates failing or not.                       *)
(***************************************************************************)
OrderSeedLessons ==
    {LessonRow("1-1", "1", "Lesson", "", 1), LessonRow("1-2", "1", "Lesson", "", 2),
     LessonRow("1-3", "1", "Lesson", "", 3)}

OrderLessonIds == {x.id : x \in OrderSeedLessons}

Directions == {"up", "down"}

InitOrder ==
    /\ lessons = OrderSeedLessons
    /\ course_progress = {}
    /\ courses = [c \in {} |-> {}]
    /\ progress = [c \in {} |-> {}]
    /\ lastOp = NoOp
    /\ InitContent

NextOrder ==
    \/ \E l \in OrderLessonIds, d \in Directions : MoveLesson("a1", l, d)
    \/ \E f \in Faults : MoveWriteFirst("a1", f)
    \/ \E f \in Faults : MoveWriteSecond("a1", f)
    \/ RefreshCourse("a1")

SpecOrder == InitOrder /\ [][NextOrder]_vars

(***************************************************************************)
(* SpecRace: two admins who each reorder the same course once, at the same *)
(* time or one after the other, every update succeeding.                   *)
(***************************************************************************)
NextRace ==
    \/ \E a \in Admins, l \in OrderLessonIds, d \in Directions :
           /\ adminPage[a].a = NoLesson
           /\ MoveLesson(a, l, d)
    \/ \E a \in Admins : MoveWriteFirst(a, "none")
    \/ \E a \in Admins : MoveWriteSecond(a, "none")
    \/ \E a \in Admins : RefreshCourse(a)

SpecRace == InitOrder /\ [][NextRace]_vars

(***************************************************************************)
(* SpecContent: requests of any caller to the admin routes of lessons and  *)
(* courses and to the resource routes.                                     *)
(***************************************************************************)
\* A user whose token is still valid and whose row is gone from users.
FormerUserId == "1600000000000"

Tokens == {NoToken, BadToken, TokenOf(DefaultUserId), TokenOf(SignupUserId),
           TokenOf(FormerUserId)}

ContentSeedLessons ==
    {LessonRow("1-1", "1", "Lesson", "", 1), LessonRow("1-2", "1", "Lesson", "", 2)}

\* Course "11" starts without lessons, course "99" does not exist.
RequestCourseIds == CourseIds \cup {"99"}

LessonBody(title, order_index, id) ==
    [title |-> title, video_url |-> Undefined, order_index |-> order_index,
     id |-> id]

\* The bodies the create route refuses (no title, a blank title, the id of a
\* lesson) and those it takes, with and without an order.
InvalidLessonBodies ==
    {LessonBody(Undefined, Num(2), Undefined),
     LessonBody(Str("  "), Num(2), Undefined),
     LessonBody(Str("New"), Num(2), Str("1-1"))}

ValidLessonBodies ==
    {LessonBody(Str("New"), o, Undefined) : o \in {Undefined, Num(2), Str("x")}}

\* The calls of a route: the admin with each of `args`, with and without a
\* failure of the pool, and every caller with `sample`.
Calls(args, sample) ==
    {[token |-> AdminToken, args |-> a, dbOk |-> ok] : a \in args, ok \in BOOLEAN}
    \cup {[token |-> t, args |-> sample, dbOk |-> TRUE] : t \in Tokens}

\* The lessons update and delete requests name: one of course "1", the same
\* under the course it is not in, and one that does not exist.
UpdateTargets == {<<"1", "1-2">>, <<"11", "1-2">>, <<"1", "zz">>}
DeleteTargets == {<<"1", "1-1">>, <<"11", "1-1">>, <<"1", "zz">>}

UpdateLessonBodies ==
    {[title |-> Undefined, videoUrl |-> Undefined, order_index |-> Undefined],
     [title |-> JsonNull, videoUrl |-> Undefined, order_index |-> Undefined],
     [title |-> Undefined, videoUrl |-> Undefined, order_index |-> Num(1)],
     [title |-> Undefined, videoUrl |-> Undefined, order_index |-> Str("x")]}

UpdateCourseBodies == {[title |-> Undefined], [title |-> Str("Renamed")]}

ResourceBody(course_id, lesson_id, title, external_url) ==
    [course_id |-> course_id, lesson_id |-> lesson_id, title |-> title,
     resource_type |-> Undefined, external_url |-> external_url]

\* The forms that fail a check of the upload route, and those that pass.
InvalidResourceBodies ==
    {ResourceBody(Undefined, Undefined, Str("Notes"), Str("https://a.co/n")),
     ResourceBody(Str("1"), Undefined, Undefined, Str("https://a.co/n")),
     ResourceBody(Str("1"), Undefined, Str("Notes"), Undefined),
     ResourceBody(Str("1"), Undefined, Str("Notes"), Str("notes")),
     ResourceBody(Str("1"), Undefined, Str("Notes"), Str("http://"))}

ValidResourceBodies ==
    {ResourceBody(Str(c), l, Str("Notes"), Str("https://a.co/n")) :
        c \in CourseIds, l \in {Undefined, Str("1-1"), Str("1-2")}}

\* The resource of SpecContent: a link under lesson 1-1.
ContentResourceBody ==
    ResourceBody(Str("1"), Str("1-1"), Str("Notes"), Str("https://a.co/n"))

ResourceIds == {"r1", "r2", "r3"}

InitContentSpec ==
    /\ lessons = ContentSeedLessons
    /\ course_progress = {}
    /\ courses = [c \in {} |-> {}]
    /\ progress = [c \in {} |-> {}]
    /\ lastOp = NoOp
    /\ InitContent

NextContent ==
    \/ \E call \in Calls(RequestCourseIds
                           \X (InvalidLessonBodies \cup ValidLessonBodies),
                         <<"1", LessonBody(Str("New"), Num(2), Undefined)>>) :
           /\ ~ \E x \in lessons : x.id = call.args[1] \o "-u1"
           /\ CreateLessonRequest(call.token, call.args[1], call.args[2], "u1",
                                  call.dbOk)
    \/ \E call \in Calls(UpdateTargets \X UpdateLessonBodies,
                         <<<<"1", "1-2">>, OrderBody(1)>>) :
           UpdateLessonRequest(call.token, call.args[1][1], call.args[1][2],
                               call.args[2], call.dbOk)
    \/ \E call \in Calls(DeleteTargets, <<"1", "1-1">>) :
           DeleteLessonRequest(call.token, call.args[1], call.args[2], call.dbOk)
    \/ \E call \in Calls({"11", "99"} \X UpdateCourseBodies,
                         <<"11", [title |-> Str("Renamed")]>>) :
           UpdateCourseRequest(call.token, call.args[1], call.args[2], call.dbOk)
    \/ \E call \in Calls(InvalidResourceBodies \cup {ContentResourceBody},
                         ContentResourceBody) :
           /\ resources = {}
           /\ CreateResourceRequest(call.token, call.args, Undefined, "r1", "s1",
                                    call.dbOk)
    \/ \E call \in Calls({"r1", "r2"}, "r1") :
           DeleteResourceRequest(call.token, call.args, call.dbOk, TRUE)
    \/ \E call \in Calls({Undefined}, Undefined) :
           ListResourcesRequest(call.token, Str("1"), call.args, call.dbOk)

SpecContent == InitContentSpec /\ [][NextContent]_vars

(***************************************************************************)
(* SpecResources: an admin uploading and deleting resources, URL resources *)
(* and files, and the members listing them.                                *)
(***************************************************************************)
Files == {Undefined, Str("a.pdf")}

NextResources ==
    \/ \E body \in ValidResourceBodies, id \in ResourceIds :
           /\ ~ \E r \in resources : r.id = id
           /\ CreateResourceRequest(AdminToken, body, Undefined, id, "s" \o id, TRUE)
    \/ \E file \in Files, dbOk \in BOOLEAN :
           /\ ~ \E r \in resources : r.id = "r3"
           /\ CreateResourceRequest(AdminToken,
                                    [course_id |-> Str("1"), lesson_id |-> Undefined,
                                     title |-> Str("Notes"),
                                     resource_type |-> Str("file"),
                                     external_url |-> Undefined],
                                    file, "r3", "sr3", dbOk)
    \/ \E id \in ResourceIds, unlinkOk \in BOOLEAN :
           DeleteResourceRequest(AdminToken, id, TRUE, unlinkOk)
    \/ DeleteLessonRequest(AdminToken, "1", "1-2", TRUE)
    \/ WipeUploads
    \/ \E t \in {NoToken, TokenOf(SignupUserId), AdminToken},
          c \in {Undefined, Str("1"), Str("11")},
          l \in {Undefined, Str("1-1"), Str("1-2")} :
           ListResourcesRequest(t, c, l, TRUE)

SpecResources == InitContentSpec /\ [][NextResources]_vars

(***************************************************************************)
(* SpecVideo: the admin sets the video of a lesson and the course page     *)
(* renders it.                                                             *)
(***************************************************************************)
Schemes == {"https://", "http://"}
VideoIds == {"XYZ"}

LoomShareUrls ==
    {"https://" \o h \o "loom.com/share/" \o x :
        h \in {"", "www."}, x \in {"abc123", "abc.mp4"}}

Mp4Urls == {"https://cdn.loom.com/sessions/thumbnails/v", "https://a.co/v.mp4"}

YoutuBeUrls ==
    {s \o "youtu.be/" \o id \o q :
        s \in Schemes, id \in VideoIds, q \in {"", "?t=5", "?t=5&x=1"}}

YoutubeHosts == {"www.youtube.com/", "youtube.com/", "m.youtube.com/"}

WatchUrls ==
    {s \o h \o "watch?v=" \o id \o q :
        s \in Schemes, h \in YoutubeHosts, id \in VideoIds,
        q \in {"", "&list=foo"}}

VimeoUrls ==
    {"https://vimeo.com/" \o p \o id :
        p \in {"", "channels/staff/"}, id \in {"12345"}}

OtherUrls == {"https://a.co/page"}

VideoUrls ==
    LoomShareUrls \cup Mp4Urls \cup YoutuBeUrls \cup WatchUrls \cup VimeoUrls
    \cup OtherUrls

NextVideo ==
    \/ \E call \in Calls({"1-1", "zz"}
                           \X ({Undefined} \cup {Str(u) : u \in VideoUrls}),
                         <<"1-1", Str("https://youtu.be/XYZ")>>) :
           UpdateLessonVideoRequest(call.token, "1", call.args[1], call.args[2],
                                    call.dbOk)
    \/ \E l \in {"1-1", "1-2"} : RenderVideo("1", l)

SpecVideo == InitContentSpec /\ [][NextVideo]_vars

(***************************************************************************)
(* The toggle button with its requests in flight: the client loads the     *)
(* courses and clicks the button of the lessons of course 1 while earlier  *)
(* requests are still under way.                                           *)
(***************************************************************************)
ToggleLessonIds == {"1-1"}

NextToggle ==
    \/ \E ok \in BOOLEAN : LoadCourses(ok)
    \/ \E l \in ToggleLessonIds : ToggleSend("1", l)
    \/ \E n \in 1..MaxToggles, ts \in Timestamps, f \in Faults : ToggleServe(n, ts, f)
    \/ \E n \in 1..MaxToggles : ToggleReturn(n)

SpecToggle == Init /\ [][NextToggle]_vars

(***************************************************************************)
(* The serverless function from a cold start: requests and health checks   *)
(* arrive while initDatabase() is under way, and it succeeds or fails.     *)
(***************************************************************************)
NextFunction ==
    \/ \E health \in BOOLEAN : WrappedHandler(health)
    \/ \E k \in 1..MaxRuns, ok \in BOOLEAN : InitDatabaseSettles(k, ok)
    \/ \E n \in 1..MaxRequests : HandlerResumes(n)

SpecFunction == Init /\ [][NextFunction]_vars

(***************************************************************************)
(* Helpers of the properties.                                              *)
(***************************************************************************)
MarkOps == {"markLessonComplete", "markLessonIncomplete"}
SetOps == {"setTrue", "setFalse"}

StripTime(rows) == {[r EXCEPT !.completed_at = NULL] : r \in rows}

TrueLessons(lessonProgress) == {x \in DOMAIN lessonProgress : lessonProgress[x]}

\* What a reload would compute for the logged-in user from the tables.
Reloaded(courseId) ==
    LoadedEntry(courseId, LessonIdsOf(lessons, courseId),
                GetAllProgress(course_progress, ClientUser))

\* The client's entry of a course equals the one recomputed from the tables.
Agree(courseId) ==
    /\ courseId \in DOMAIN courses
    /\ courseId \in DOMAIN progress
    /\ courses[courseId] = LessonIdsOf(lessons, courseId)
    /\ TrueLessons(progress[courseId].lessonProgress)
           = TrueLessons(Reloaded(courseId).lessonProgress)
    /\ progress[courseId].completedLessons = Reloaded(courseId).completedLessons
    /\ progress[courseId].percentage = Reloaded(courseId).percentage

\* C1: a successful markLessonComplete(c, l) that directly follows a
\* successful markLessonComplete(c, l) leaves the client's progress as the
\* first call left it, and the stored rows too, completed_at aside.
C1_CompleteIdempotent ==
    [][(lastOp'.op = "markLessonComplete" /\ lastOp'.ok /\ lastOp'.streak >= 2)
        => /\ progress' = progress
           /\ StripTime(course_progress') = StripTime(course_progress)]_vars

C1_Witness ==
    /\ lastOp.op = "markLessonComplete" /\ lastOp.ok /\ lastOp.streak = 2
    /\ lastOp.courseId \in DOMAIN progress
    /\ lastOp.lessonId \in TrueLessons(progress[lastOp.courseId].lessonProgress)
    /\ progress[lastOp.courseId].completedLessons = 2
    /\ \E r \in RowsOf(course_progress, ClientUser, lastOp.courseId, lastOp.lessonId) :
           r.completed /\ r.completed_at = 2

\* C2: once a successful loadProgress has run on the server's current lesson
\* lists, every successful mark-complete or mark-incomplete keeps the
\* client's entry of each course (lessons marked true, completedLessons,
\* percentage) equal to the one recomputed from the stored rows and the
\* course's lesson list.
C2_ClientEqualsRecomputed ==
    [][\A c \in CourseIds :
          (\/ /\ lastOp'.op \in MarkOps /\ lastOp'.ok /\ Agree(c)
           \/ /\ lastOp'.op = "loadProgress" /\ lastOp'.ok
              /\ c \in DOMAIN courses
              /\ courses[c] = LessonIdsOf(lessons, c))
          => Agree(c)']_vars

C2_Witness ==
    /\ lastOp.op = "markLessonIncomplete" /\ lastOp.ok
    /\ Agree(lastOp.courseId)
    /\ progress[lastOp.courseId].completedLessons = 1
    /\ lastOp.lessonId \in DOMAIN progress[lastOp.courseId].lessonProgress
    /\ \E r \in RowsOf(course_progress, ClientUser, lastOp.courseId, lastOp.lessonId) :
           ~r.completed

\* C3: a record with completed = FALSE aggregates like no record: taking a
\* false record of lesson L out of the rows, or adding one for a lesson
\* without a record, changes neither completedLessons nor percentage nor
\* whether L counts as completed; the same holds of an explicit false key in
\* the client's lessonProgress.
SameAggregate(a, b, lessonId) ==
    /\ a.completedLessons = b.completedLessons
    /\ a.percentage = b.percentage
    /\ (lessonId \in TrueLessons(a.lessonProgress))
           <=> (lessonId \in TrueLessons(b.lessonProgress))

FalseRecord(courseId, lessonId) ==
    [id |-> SyntheticId(ClientUser, courseId, lessonId), user_id |-> ClientUser,
     course_id |-> courseId, lesson_id |-> lessonId, completed |-> FALSE,
     completed_at |-> NULL]

Without(lessonProgress, lessonId) ==
    [x \in DOMAIN lessonProgress \ {lessonId} |-> lessonProgress[x]]

C3_FalseEqualsAbsent ==
    LET items == GetAllProgress(course_progress, ClientUser)
    IN  /\ \A c \in DOMAIN courses :
            /\ \A r \in items :
                   (r.course_id = c /\ ~r.completed)
                   => SameAggregate(LoadedEntry(c, courses[c], items \ {r}),
                                    LoadedEntry(c, courses[c], items), r.lesson_id)
            /\ \A l \in LessonIds :
                   RowsOf(items, ClientUser, c, l) = {}
                   => SameAggregate(
                          LoadedEntry(c, courses[c], items \cup {FalseRecord(c, l)}),
                          LoadedEntry(c, courses[c], items), l)
        /\ \A c \in DOMAIN progress :
               \A l \in DOMAIN progress[c].lessonProgress :
                   ~progress[c].lessonProgress[l]
                   => SameAggregate(
                          CalculateProgress(courses, progress, c),
                          CalculateProgress(courses,
                              [progress EXCEPT ![c].lessonProgress =
                                  Without(progress[c].lessonProgress, l)], c),
                          l)

C3_Witness ==
    \E c \in DOMAIN progress :
        \E l \in DOMAIN progress[c].lessonProgress :
            /\ ~progress[c].lessonProgress[l]
            /\ progress[c].completedLessons = 1
            /\ \E r \in RowsOf(course_progress, ClientUser, c, l) : ~r.completed

\* C4: for a course with lessons, every computation of a percentage (the
\* entries loadProgress sets, the entry a toggle sets, and what
\* calculateProgress returns) gives the integer nearest to
\* 100 * completedLessons / totalLessons: 33 for 1 of 3 and 67 for 2 of 3.
Abs(n) == IF n < 0 THEN -n ELSE n

Rounded(entry, total) ==
    /\ entry.percentage.kind = "finite"
    /\ 2 * Abs(100 * entry.completedLessons - entry.percentage.value * total) <= total
    /\ (total = 3 /\ entry.completedLessons = 1) => entry.percentage.value = 33
    /\ (total = 3 /\ entry.completedLessons = 2) => entry.percentage.value = 67

\* The courses whose entry the last operation computed.
JustComputed ==
    IF lastOp.ok /\ lastOp.op = "loadProgress"
    THEN DOMAIN progress
    ELSE IF lastOp.ok /\ lastOp.op \in MarkOps
    THEN {lastOp.courseId} \cap DOMAIN progress
    ELSE {}

C4_PercentageRounded ==
    /\ \A c \in DOMAIN courses :
           courses[c] # {}
           => Rounded(CalculateProgress(courses, progress, c), Cardinality(courses[c]))
    /\ \A c \in JustComputed \cap DOMAIN courses :
           courses[c] # {} => Rounded(progress[c], Cardinality(courses[c]))

C4_Witness ==
    /\ lastOp.op = "markLessonComplete" /\ lastOp.ok
    /\ "1" \in DOMAIN courses /\ Cardinality(courses["1"]) = 3
    /\ "1" \in DOMAIN progress
    /\ progress["1"].completedLessons = 2
    /\ progress["1"].percentage = Finite(67)
    /\ CalculateProgress(courses, progress, "1").percentage = Finite(67)

\* C5: for a course that has no lessons, every computation of a percentage
\* gives 0.
C5_EmptyCourseIsZero ==
    /\ \A c \in DOMAIN courses :
           courses[c] = {}
           => CalculateProgress(courses, progress, c).percentage = Finite(0)
    /\ \A c \in JustComputed \cap DOMAIN courses :
           courses[c] = {} => progress[c].percentage = Finite(0)

\* C6: a markLessonComplete or markLessonIncomplete whose write failed leaves
\* the client's progress as it was and settles as a failure for its caller.
C6_FailureReported ==
    [][(lastOp'.op \in MarkOps /\ ~lastOp'.ok)
        => /\ progress' = progress
           /\ lastOp'.outcome = "rejected"]_vars

\* C7: a request to the progress route for a lesson id that is not a lesson
\* of the course is rejected and writes nothing.
C7_LessonNotFound ==
    [][(/\ lastOp'.op \in SetOps
        /\ lastOp'.lessonId \notin LessonIdsOf(lessons, lastOp'.courseId))
        => /\ ~lastOp'.ok
           /\ course_progress' = course_progress]_vars

\* C8: the table holds at most one row per (user_id, course_id, lesson_id);
\* a successful setCompletion(true) leaves exactly one row of its tuple, the
\* row it found when there was one, and changes no other row;
\* setCompletion(false) creates no row.
Tuple(r) == <<r.user_id, r.course_id, r.lesson_id>>

OneRowPerTuple(rows) ==
    \A r1 \in rows : \A r2 \in rows : Tuple(r1) = Tuple(r2) => r1 = r2

C8_OneRowPerTuple ==
    [][/\ OneRowPerTuple(course_progress')
       /\ (lastOp'.op = "setTrue" /\ lastOp'.ok)
          => LET before == RowsOf(course_progress, lastOp'.userId,
                                  lastOp'.courseId, lastOp'.lessonId)
                 after == RowsOf(course_progress', lastOp'.userId,
                                 lastOp'.courseId, lastOp'.lessonId)
             IN  /\ Cardinality(after) = 1
                 /\ \A r \in after : r.completed
                 /\ {r.id : r \in before} \subseteq {r.id : r \in after}
                 /\ course_progress' \ after = course_progress \ before
       /\ (lastOp'.op = "setFalse")
          => {Tuple(r) : r \in course_progress'} = {Tuple(r) : r \in course_progress}
      ]_vars

C8_Witness ==
    /\ lastOp.op = "setTrue" /\ lastOp.ok /\ lastOp.streak = 2
    /\ Cardinality(course_progress) = 3
    /\ \E r \in course_progress : ~r.completed

\* C9: a request to the progress route changes no row of another tuple, and
\* it fails only when its own lesson id is no row of table lessons: never
\* because of a row of another tuple.
C9_TogglesIndependent ==
    [][lastOp'.op \in SetOps
        => /\ \A r \in course_progress :
                  Tuple(r) # <<lastOp'.userId, lastOp'.courseId, lastOp'.lessonId>>
                  => r \in course_progress'
           /\ ~lastOp'.ok
              => lastOp'.lessonId \notin {x.id : x \in lessons}]_vars

C9_Witness ==
    /\ lastOp.op = "setTrue" /\ lastOp.ok
    /\ \E r1 \in course_progress : \E r2 \in course_progress :
           /\ r1.user_id # r2.user_id
           /\ r1.course_id = "1" /\ r1.lesson_id = "11-1"
           /\ r2.course_id = "11" /\ r2.lesson_id = "1-1"
           /\ r2.id = SyntheticId(lastOp.userId, lastOp.courseId, lastOp.lessonId)

\* C10: in a course of four lessons with lessons 1 and 2 completed the
\* percentage is 50, with only lesson 1 completed it is 25, and after lesson
\* 4 is deleted it is 33 with totalLessons 3 and completedLessons 1; deleting
\* a lesson the user has not completed lowers the recomputed totalLessons by
\* one and leaves completedLessons, and so does the client's reload of the
\* courses.
Shown(courseId) == CalculateProgress(courses, progress, courseId)

ScenarioHolds ==
    "1" \in DOMAIN courses
    => LET p == Shown("1")
           done == TrueLessons(p.lessonProgress)
       IN  /\ (Cardinality(courses["1"]) = 4 /\ done = {"1-1", "1-2"})
              => p.percentage = Finite(50)
           /\ (Cardinality(courses["1"]) = 4 /\ done = {"1-1"})
              => p.percentage = Finite(25)
           /\ (courses["1"] = {"1-1", "1-2", "1-3"} /\ done = {"1-1"})
              => /\ p.totalLessons = 3
                 /\ p.completedLessons = 1
                 /\ p.percentage = Finite(33)

C10_EndToEnd ==
    [][/\ ScenarioHolds'
       /\ \A c \in CourseIds :
              (/\ lastOp'.op = "deleteLesson" /\ lastOp'.courseId = c
               /\ lastOp'.lessonId \notin TrueLessons(Reloaded(c).lessonProgress))
              => /\ Reloaded(c)'.totalLessons = Reloaded(c).totalLessons - 1
                 /\ Reloaded(c)'.completedLessons = Reloaded(c).completedLessons
       /\ (lastOp'.op = "loadCourses" /\ lastOp'.ok)
          => \A c \in DOMAIN courses : \A l \in courses[c] :
                 (/\ courses'[c] = courses[c] \ {l}
                  /\ l \notin TrueLessons(Shown(c).lessonProgress))
                 => /\ Shown(c)'.totalLessons = Shown(c).totalLessons - 1
                    /\ Shown(c)'.completedLessons = Shown(c).completedLessons
      ]_vars

C10_Witness ==
    /\ lastOp.op = "loadCourses" /\ lastOp.ok
    /\ LessonIdsOf(lessons, "1") = {"1-1", "1-2", "1-3"}
    /\ "1" \in DOMAIN courses /\ courses["1"] = {"1-1", "1-2", "1-3"}
    /\ "1" \in DOMAIN progress
    /\ progress["1"].lessonProgress = [x \in {"1-1", "1-2"} |-> x = "1-1"]
    /\ Shown("1").totalLessons = 3
    /\ Shown("1").completedLessons = 1
    /\ Shown("1").percentage = Finite(33)
    /\ \E r \in RowsOf(course_progress, ClientUser, "1", "1-2") : ~r.completed

(***************************************************************************)
(* Reordering.                                                             *)
(***************************************************************************)
MoveOps == {"moveLessonUp", "moveLessonDown"}
WriteOps == {"moveWriteFirst", "moveWriteSecond"}

\* The lesson stands first (last) in the list sorted by order: no other row
\* of the list has a smaller (greater) order, and none of the same order
\* stands before (after) it.
IsFirst(list, lessonId) ==
    \E i \in 1..Len(list) :
        /\ list[i].id = lessonId
        /\ \A j \in 1..Len(list) :
               j # i => \/ list[j].order_index > list[i].order_index
                        \/ list[j].order_index = list[i].order_index /\ j > i

IsLast(list, lessonId) ==
    \E i \in 1..Len(list) :
        /\ list[i].id = lessonId
        /\ \A j \in 1..Len(list) :
               j # i => \/ list[j].order_index < list[i].order_index
                        \/ list[j].order_index = list[i].order_index /\ j < i

AtBoundary(list, lessonId, op) ==
    \/ op = "moveLessonUp" /\ IsFirst(list, lessonId)
    \/ op = "moveLessonDown" /\ IsLast(list, lessonId)

OrderOf(rows, lessonId) == (CHOOSE x \in rows : x.id = lessonId).order_index

Reordered(rows, lessonId, orderIndex) ==
    {IF x.id = lessonId THEN [x EXCEPT !.order_index = orderIndex] ELSE x : x \in rows}

\* rows with the stored order values of two lessons exchanged.
ExchangedRows(rows, idA, idB) ==
    {IF x.id = idA THEN [x EXCEPT !.order_index = OrderOf(rows, idB)]
     ELSE IF x.id = idB THEN [x EXCEPT !.order_index = OrderOf(rows, idA)]
     ELSE x : x \in rows}

\* The list of the page shows the rows the table held when moveLesson began.
ListWasCurrent(page) ==
    {page.lessons[i] : i \in 1..Len(page.lessons)} = LessonsIn(page.start, page.courseId)

\* C11: moveLesson for the lesson that stands first in the page's list sorted
\* by order, direction up, or for the one that stands last, direction down,
\* writes nothing: no lesson row changes, no update is sent (the page stays
\* idle and not saving), and the page's error is the one it had.
C11_BoundaryNoOp ==
    [][\A a \in Admins :
          (/\ lastOp'.op \in MoveOps /\ lastOp'.userId = a
           /\ AtBoundary(adminPage[a].lessons, lastOp'.lessonId, lastOp'.op))
          => /\ lessons' = lessons
             /\ adminPage' = adminPage
             /\ adminPage'[a].pc = "idle" /\ ~adminPage'[a].saving]_vars

C11_Witness ==
    /\ lastOp.op = "moveLessonDown" /\ lastOp.lessonId = "1-2"
    /\ Len(adminPage["a1"].lessons) = 3
    /\ IsLast(adminPage["a1"].lessons, "1-2")
    /\ adminPage["a1"].pc = "idle"
    /\ OrderOf(lessons, "1-2") = 3 /\ OrderOf(lessons, "1-3") = 2

\* C12: a reorder whose two updates both succeed, begun from a list that
\* showed the stored rows and with no other write in between, leaves the
\* table as it was when the reorder began with the order values of the moved
\* lesson and of its neighbour in the sorted list exchanged, every other row
\* as it was; from 1-1:1, 1-2:2, 1-3:3, moving 1-2 up gives 1-1:2, 1-2:1,
\* 1-3:3.
C12_SwapExchangesOrders ==
    [][\A a \in Admins :
          (/\ lastOp'.op = "moveWriteSecond" /\ lastOp'.userId = a /\ lastOp'.ok
           /\ adminPage[a].errorA = ""
           /\ ListWasCurrent(adminPage[a])
           /\ lessons = Reordered(adminPage[a].start, adminPage[a].a.id,
                                  OrderOf(adminPage[a].start, adminPage[a].b.id)))
          => /\ lessons' = ExchangedRows(adminPage[a].start, adminPage[a].a.id,
                                        adminPage[a].b.id)
             /\ (/\ adminPage[a].start = OrderSeedLessons
                 /\ adminPage[a].a.id = "1-2" /\ adminPage[a].b.id = "1-1")
                => lessons' = {LessonRow("1-1", "1", "Lesson", "", 2),
                               LessonRow("1-2", "1", "Lesson", "", 1),
                               LessonRow("1-3", "1", "Lesson", "", 3)}]_vars

C12_Witness ==
    /\ lastOp.op = "moveWriteSecond" /\ lastOp.ok
    /\ adminPage["a1"].errorA = ""
    /\ adminPage["a1"].start = OrderSeedLessons
    /\ adminPage["a1"].a.id = "1-2" /\ adminPage["a1"].b.id = "1-1"
    /\ OrderOf(lessons, "1-1") = 2 /\ OrderOf(lessons, "1-2") = 1
    /\ OrderOf(lessons, "1-3") = 3

\* C13: when the first update of a reorder succeeded and the second failed,
\* the page shows an error that a failed write does not show otherwise.
StorageErrors == {"Internal server error", "Network error"}

C13_PartialFailureDistinct ==
    [][\A a \in Admins :
          (/\ lastOp'.op = "moveWriteSecond" /\ lastOp'.userId = a /\ ~lastOp'.ok
           /\ adminPage[a].errorA = "")
          => adminPage'[a].error \notin StorageErrors]_vars

\* C14: the updates of a reorder take no lock and check no version: each one
\* that reaches the server succeeds and stores the order value the page
\* computed from its list, whatever the other admin wrote since the list was
\* read.  (The interleaving the claim speaks of is the state C14_Witness
\* describes.)
C14_NoLockNoVersion ==
    [][\A a \in Admins :
          (lastOp'.op \in WriteOps /\ lastOp'.userId = a)
          => /\ lastOp'.ok
             /\ lastOp'.op = "moveWriteFirst"
                => OrderOf(lessons', adminPage[a].a.id) = adminPage[a].b.order_index
             /\ lastOp'.op = "moveWriteSecond"
                => OrderOf(lessons', adminPage[a].b.id) = adminPage[a].a.order_index
      ]_vars

\* Both admins read the seeded orders before either wrote, every update
\* succeeded, and the table matches neither exchange: two lessons share an
\* order value.
C14_Witness ==
    /\ \A a \in Admins :
           /\ adminPage[a].pc = "idle" /\ adminPage[a].a # NoLesson
           /\ adminPage[a].errorA = "" /\ adminPage[a].error = ""
           /\ adminPage[a].start = OrderSeedLessons
           /\ lessons # ExchangedRows(OrderSeedLessons, adminPage[a].a.id,
                                      adminPage[a].b.id)
    /\ \E x \in lessons : \E y \in lessons :
           x.id # y.id /\ x.order_index = y.order_index

(***************************************************************************)
(* Creating lessons.                                                       *)
(***************************************************************************)
\* The lesson a successful step inserted.
Inserted == lessons' \ lessons

\* C15: a lesson created with a requested order that is a number gets
\* exactly that order, whether or not a lesson of the course holds it
\* already; a lesson created without a requested order gets an order one
\* above the highest of the course, and 1 in a course without lessons.
C15_CreateLessonOrder ==
    [][\A c \in RequestCourseIds, body \in ValidLessonBodies :
          (/\ reply'.status = 201
           /\ CreateLessonRequest(AdminToken, c, body, "u1", TRUE))
          => /\ Cardinality(Inserted) = 1
             /\ \A x \in Inserted :
                    /\ x.course_id = c
                    /\ body.order_index.kind = "number"
                           => x.order_index = body.order_index.num
                    /\ body.order_index.kind = "undefined"
                           => /\ \A y \in lessons :
                                     y.course_id = c => y.order_index < x.order_index
                              /\ \/ \E y \in lessons : /\ y.course_id = c
                                                       /\ x.order_index = y.order_index + 1
                                 \/ /\ ~ \E y \in lessons : y.course_id = c
                                    /\ x.order_index = 1]_vars

\* A lesson was created with order 2 in course "1" while lesson 1-2 holds
\* order 2, and one was created in course "11" as its first with order 1.
C15_Witness ==
    /\ lastOp.op = "createLesson" /\ reply.status = 201
    /\ \E x \in reply.data : \E y \in lessons :
           /\ x.id = "1-u1" /\ x \in lessons /\ x.order_index = 2
           /\ y.id = "1-2" /\ y.order_index = 2
    /\ \E z \in lessons : z.id = "11-u1" /\ z.order_index = 1

(***************************************************************************)
(* Listing resources.                                                      *)
(***************************************************************************)
Readers == {TokenOf(SignupUserId), AdminToken}

\* C16: a listing for a course and a lesson answers exactly the resources
\* of the course that are scoped to that lesson or to no lesson; a listing
\* for a course alone answers exactly the resources of the course.
C16_ResourceScoping ==
    [][\A t \in Readers, c \in CourseIds :
          lastOp'.op = "getResources" =>
          /\ \A l \in {"1-1", "1-2"} :
                 ListResourcesRequest(t, Str(c), Str(l), TRUE)
                 => reply'.data = {r \in resources :
                                      /\ r.course_id = c
                                      /\ r.lesson_id \in {SqlText(l), SqlNull}}
          /\ ListResourcesRequest(t, Str(c), Undefined, TRUE)
                 => reply'.data = {r \in resources : r.course_id = c}]_vars

\* Course "1" holds a resource of lesson 1-1, one of lesson 1-2 and one of
\* the course, course "11" holds none of these, and the listing answered
\* the first and the third.
C16_Witness ==
    /\ lastOp.op = "getResources" /\ reply.status = 200
    /\ \E a \in resources, b \in resources, c \in resources :
           /\ a.course_id = "1" /\ a.lesson_id = SqlText("1-1")
           /\ b.course_id = "1" /\ b.lesson_id = SqlText("1-2")
           /\ c.course_id = "1" /\ c.lesson_id = SqlNull
           /\ reply.data = {a, c}

(***************************************************************************)
(* Authorization.                                                          *)
(***************************************************************************)
\* The content a mutation works on.
content == <<lessons, courses_table, resources, uploads>>

MutationOps == {"createLesson", "updateLesson", "deleteLesson", "updateCourse",
                "createResource", "deleteResource"}

\* C17: a step changes lessons, courses or resources only when its request
\* carried the token of a user who is an admin in table users; a listing of
\* resources is answered for every token that verifies, whatever the user,
\* and refused without one.
C17_AdminOnlyMutations ==
    [][/\ content' # content
          => /\ lastOp'.op \in MutationOps
             /\ \E u \in users : u.id = lastOp'.userId /\ u.is_admin
       /\ lastOp'.op = "getResources" =>
              \A t \in Tokens :
                  ListResourcesRequest(t, Str("1"), Undefined, TRUE)
                  => IF t.kind = "valid"
                     THEN /\ reply'.status = 200
                          /\ reply'.data = {r \in resources : r.course_id = "1"}
                     ELSE reply'.status \in {401, 403} /\ reply'.data = {}]_vars

\* A member with a valid token asked to delete the resource the admin had
\* uploaded, was refused, and the resource is still there.
C17_Witness ==
    /\ lastOp.op = "deleteResource" /\ lastOp.userId = SignupUserId
    /\ reply.status = 403
    /\ \E r \in resources : r.id = "r1"

(***************************************************************************)
(* Validation.                                                             *)
(***************************************************************************)
NoFields == [title |-> Undefined, videoUrl |-> Undefined, order_index |-> Undefined]

\* C18: a request of the admin that fails a check of its route (a lesson
\* without a title, with a blank title or with the id of a lesson; an
\* update without fields; an upload without course_id or title; a link
\* without external_url or with one that is no URL) is answered with an
\* error, 400 when the database answers, and no row of lessons, courses or
\* resources and no file is inserted or changed.
C18_ValidationBeforeWrite ==
    [][/\ lastOp'.op = "createLesson" =>
              \A c \in RequestCourseIds, body \in InvalidLessonBodies, dbOk \in BOOLEAN :
                  (/\ body.id.kind = "string" => \E x \in lessons : x.id = body.id.str
                   /\ CreateLessonRequest(AdminToken, c, body, "u1", dbOk))
                  => /\ UNCHANGED content
                     /\ reply'.status \in {400, 404, 500}
                     /\ dbOk /\ c \in CourseIds => reply'.status = 400
       /\ lastOp'.op = "updateLesson" =>
              \A target \in UpdateTargets, dbOk \in BOOLEAN :
                  UpdateLessonRequest(AdminToken, target[1], target[2], NoFields, dbOk)
                  => UNCHANGED content /\ reply'.status = 400
       /\ lastOp'.op = "updateCourse" =>
              \A c \in {"11", "99"}, dbOk \in BOOLEAN :
                  UpdateCourseRequest(AdminToken, c, [title |-> Undefined], dbOk)
                  => UNCHANGED content /\ reply'.status = 400
       /\ lastOp'.op = "createResource" =>
              \A body \in InvalidResourceBodies, dbOk \in BOOLEAN :
                  CreateResourceRequest(AdminToken, body, Undefined, "r1", "s1", dbOk)
                  => UNCHANGED content /\ reply'.status = 400]_vars

\* The admin asked for a lesson with the id of lesson 1-1 and a new title
\* and order; the route refused and lesson 1-1 is as it was.
C18_Witness ==
    /\ lastOp.op = "createLesson" /\ lastOp.userId = DefaultUserId
    /\ reply.status = 400
    /\ reply.error = "A lesson with this id already exists"
    /\ LessonRow("1-1", "1", "Lesson", "", 1) \in lessons

(***************************************************************************)
(* Requests that name a lesson or a resource that does not exist.          *)
(***************************************************************************)
HasLesson(courseId, lessonId) ==
    \E x \in lessons : x.id = lessonId /\ x.course_id = courseId

\* C19: an update (with a field, and an order that is a number if any) or
\* a delete of a lesson the course does not have is answered 404 and leaves every lesson row as it was, and a delete of a
\* resource that does not exist is answered 404 and changes nothing.
C19_MissingReportsNotFound ==
    [][/\ lastOp'.op = "updateLesson" =>
              \A target \in UpdateTargets, body \in UpdateLessonBodies \ {NoFields} :
                  (/\ ~HasLesson(target[1], target[2])
                   /\ body.order_index.kind \in {"undefined", "number"}
                   /\ UpdateLessonRequest(AdminToken, target[1], target[2], body, TRUE))
                  => reply'.status = 404 /\ UNCHANGED content
       /\ lastOp'.op = "deleteLesson" =>
              \A target \in DeleteTargets :
                  (/\ ~HasLesson(target[1], target[2])
                   /\ DeleteLessonRequest(AdminToken, target[1], target[2], TRUE))
                  => reply'.status = 404 /\ UNCHANGED content
       /\ lastOp'.op = "deleteResource" =>
              \A id \in {"r1", "r2"} :
                  (/\ ~ \E r \in resources : r.id = id
                   /\ DeleteResourceRequest(AdminToken, id, TRUE, TRUE))
                  => reply'.status = 404 /\ UNCHANGED content]_vars

(***************************************************************************)
(* The player of a lesson's video.                                         *)
(***************************************************************************)
\* C20: a URL with loom.com/share/ is a loom share whatever else it holds
\* and is played from loom.com/embed/; a URL of cdn.loom.com or with .mp4 is
\* played directly; youtu.be/ID?... and youtube.com/watch?v=ID&... are
\* played from https://www.youtube.com/embed/ID; vimeo.com/.../ID is played
\* from https://player.vimeo.com/video/ID; any other URL has no player.
C20_VideoEmbed ==
    /\ \A h \in {"", "www."}, x \in {"abc123", "abc.mp4"} :
           player.url = "https://" \o h \o "loom.com/share/" \o x
           => /\ player.shape = "loom-share"
              /\ player.src = "https://" \o h \o "loom.com/embed/" \o x
    /\ player.url \in Mp4Urls
           => player.shape = "loom-cdn-or-mp4" /\ player.src = player.url
    /\ \A id \in VideoIds :
           \/ \E s \in Schemes, q \in {"", "?t=5", "?t=5&x=1"} :
                  player.url = s \o "youtu.be/" \o id \o q
           \/ \E s \in Schemes, h \in YoutubeHosts, q \in {"", "&list=foo"} :
                  player.url = s \o h \o "watch?v=" \o id \o q
           => /\ player.shape = "youtube"
              /\ player.src = "https://www.youtube.com/embed/" \o id
    /\ \A p \in {"", "channels/staff/"}, id \in {"12345"} :
           player.url = "https://vimeo.com/" \o p \o id
           => /\ player.shape = "vimeo"
              /\ player.src = "https://player.vimeo.com/video/" \o id
    /\ player.url \in OtherUrls => player.shape = "other"

(***************************************************************************)
(* The time of a completion.                                               *)
(***************************************************************************)
\* C21: every row of course_progress has a completed_at exactly when it is
\* completed; a successful completion leaves the row completed at the time
\* of the statement, a successful un-completion leaves it not completed and
\* without a time.
C21_CompletedAtIffCompleted ==
    [][/\ \A r \in course_progress' : r.completed <=> r.completed_at # NULL
       /\ lastOp'.op = "markLessonComplete" /\ lastOp'.ok =>
              \A c \in CourseIds, l \in LessonIds, ts \in Timestamps :
                  MarkLessonComplete(c, l, ts, "none")
                  => \E r \in RowsOf(course_progress', ClientUser, c, l) :
                         r.completed /\ r.completed_at = ts
       /\ lastOp'.op = "markLessonIncomplete" /\ lastOp'.ok =>
              \A c \in CourseIds, l \in LessonIds :
                  MarkLessonIncomplete(c, l, "none")
                  => \A r \in RowsOf(course_progress', ClientUser, c, l) :
                         ~r.completed /\ r.completed_at = NULL]_vars

\* A lesson was completed and un-completed, another is completed at the
\* latest time.
C21_Witness ==
    /\ lastOp.op = "markLessonIncomplete" /\ lastOp.ok
    /\ \E r \in RowsOf(course_progress, ClientUser, lastOp.courseId, lastOp.lessonId) :
           ~r.completed /\ r.completed_at = NULL
    /\ \E r \in course_progress : r.completed /\ r.completed_at = MaxTime

(***************************************************************************)
(* A reorder that fails half-way, and what the admin is shown.             *)
(***************************************************************************)
\* C22: when the first update of a reorder succeeded and the second failed
\* (the list having shown the stored rows), the table is the one the reorder
\* began with except that the moved lesson holds the neighbour's order: the
\* neighbour keeps its own, so the two are equal, and nothing is undone.
C22_PartialFailureLeavesEqualOrders ==
    [][\A a \in Admins :
          (/\ lastOp'.op = "moveWriteSecond" /\ lastOp'.userId = a /\ ~lastOp'.ok
           /\ adminPage[a].errorA = ""
           /\ ListWasCurrent(adminPage[a]))
          => /\ lessons' = Reordered(adminPage[a].start, adminPage[a].a.id,
                                    OrderOf(adminPage[a].start, adminPage[a].b.id))
             /\ OrderOf(lessons', adminPage[a].b.id)
                    = OrderOf(adminPage[a].start, adminPage[a].b.id)
             /\ OrderOf(lessons', adminPage[a].a.id)
                    = OrderOf(lessons', adminPage[a].b.id)]_vars

\* Moving 1-2 up from 1, 2, 3 with the second update failing: 1-1 and 1-2
\* both hold order 1.
C22_Witness ==
    /\ lastOp.op = "moveWriteSecond" /\ ~lastOp.ok
    /\ adminPage["a1"].errorA = ""
    /\ adminPage["a1"].start = OrderSeedLessons
    /\ adminPage["a1"].a.id = "1-2" /\ adminPage["a1"].b.id = "1-1"
    /\ OrderOf(lessons, "1-1") = 1 /\ OrderOf(lessons, "1-2") = 1
    /\ OrderOf(lessons, "1-3") = 3

(***************************************************************************)
(* An order that is not a number.                                          *)
(***************************************************************************)
\* C23: a create or an update of the admin whose order_index is not a
\* number is answered 400 and leaves table lessons as it was.
C23_NonNumericOrderRejected ==
    [][/\ lastOp'.op = "createLesson" =>
              \A c \in CourseIds :
                  CreateLessonRequest(AdminToken, c,
                                      LessonBody(Str("New"), Str("x"), Undefined),
                                      "u1", TRUE)
                  => reply'.status = 400 /\ lessons' = lessons
       /\ lastOp'.op = "updateLesson" =>
              \A target \in UpdateTargets :
                  UpdateLessonRequest(AdminToken, target[1], target[2],
                                      [title |-> Undefined, videoUrl |-> Undefined,
                                       order_index |-> Str("x")], TRUE)
                  => reply'.status = 400 /\ lessons' = lessons]_vars

(***************************************************************************)
(* Deleting the file of a resource.                                        *)
(***************************************************************************)
FileOf(resource) == resource.saved_file_name.text

\* C24: the delete of a file resource whose file cannot be removed (the
\* unlink fails, or the file is not in the directory) is answered 200 and
\* takes the row from the table.
C24_BlobDeleteBestEffort ==
    [][lastOp'.op = "deleteResource" =>
          \A r \in resources, unlinkOk \in BOOLEAN :
              (/\ r.resource_type = "file"
               /\ ~unlinkOk \/ FileOf(r) \notin uploads
               /\ DeleteResourceRequest(AdminToken, r.id, TRUE, unlinkOk))
              => /\ reply'.status = 200
                 /\ resources' = resources \ {r}
                 /\ ~unlinkOk => uploads' = uploads]_vars

\* The file resource was deleted with its unlink failing: the row is gone,
\* the answer is 200 and the file is still in the directory.
C24_Witness ==
    /\ lastOp.op = "deleteResource" /\ reply.status = 200
    /\ ~ \E r \in resources : r.id = "r3"
    /\ "sr3-a.pdf" \in uploads

(***************************************************************************)
(* The bounds of what the client reports.                                  *)
(***************************************************************************)
\* C25: what getCourseProgress reports for every course is a percentage
\* that is a number from 0 to 100 and a completedLessons that is at most
\* totalLessons.
C25_PercentageBounds ==
    \A c \in CourseIds :
        /\ Shown(c).percentage.kind = "finite"
        /\ Shown(c).percentage.value \in 0..100
        /\ Shown(c).completedLessons <= Shown(c).totalLessons

(***************************************************************************)
(* Toggle requests in flight.                                              *)
(***************************************************************************)
\* The completion the server stores for the client's user.
StoredCompleted(courseId, lessonId) ==
    \E r \in RowsOf(course_progress, ClientUser, courseId, lessonId) : r.completed

\* Two requests for one lesson that the server handled in one order and
\* whose responses came back in the other.
ReturnedOutOfOrder(courseId, lessonId) ==
    \E t1, t2 \in toggles :
        /\ t1.courseId = courseId /\ t1.lessonId = lessonId
        /\ t2.courseId = courseId /\ t2.lessonId = lessonId
        /\ t1.served > 0 /\ t2.served > 0 /\ t1.served < t2.served
        /\ t1.returned > t2.returned

AllReturned == toggles # {} /\ \A t \in toggles : t.phase = "returned"

\* C26: once every toggle request for a lesson has returned, what the
\* client shows for the lesson is what the server stores, also when the
\* responses came back in another order than the server handled them.
C26_TogglesConverge ==
    \A c \in CourseIds, l \in LessonIds :
        (AllReturned /\ ReturnedOutOfOrder(c, l))
        => (IsCompleted(courses, progress, c, l) <=> StoredCompleted(c, l))

(***************************************************************************)
(* What the admin is shown when a reorder ends.                            *)
(***************************************************************************)
\* The stored orders of the two lessons of the page's reorder are those the
\* table held when the reorder began, exchanged.
OrdersExchanged(page, lessonRows) ==
    /\ OrderOf(lessonRows, page.a.id) = OrderOf(page.start, page.b.id)
    /\ OrderOf(lessonRows, page.b.id) = OrderOf(page.start, page.a.id)

\* C27: when a reorder ends (the second response has arrived and saving is
\* off again) and the stored orders of the two lessons are not exchanged,
\* the page shows an error; so it does when the first update failed and
\* the second succeeded.
C27_UnfinishedReorderShowsError ==
    [][\A a \in Admins :
          (/\ lastOp'.op = "moveWriteSecond" /\ lastOp'.userId = a
           /\ ListWasCurrent(adminPage[a])
           /\ ~OrdersExchanged(adminPage[a], lessons'))
          => adminPage'[a].error # ""]_vars

(***************************************************************************)
(* Where a reordered lesson stands afterwards.                             *)
(***************************************************************************)
\* C28: after a reorder whose two updates both succeeded (begun from a list
\* that showed the stored rows), the moved lesson stands, in the lessons of
\* the course sorted by order as the server lists them, in the place its
\* neighbour had in the page's sorted list: one place further in the
\* requested direction.  Equal order values are not excluded.
C28_ReorderMovesOnePlace ==
    [][\A a \in Admins :
          (/\ lastOp'.op = "moveWriteSecond" /\ lastOp'.userId = a /\ lastOp'.ok
           /\ adminPage[a].errorA = ""
           /\ ListWasCurrent(adminPage[a])
           /\ lessons = Reordered(adminPage[a].start, adminPage[a].a.id,
                                  OrderOf(adminPage[a].start, adminPage[a].b.id)))
          => \A after \in OrderedLists(lessons', adminPage[a].courseId) :
                 FindIndex(after, adminPage[a].a.id)
                     = FindIndex(SortByOrderIndex(adminPage[a].lessons),
                                 adminPage[a].b.id)]_vars

(***************************************************************************)
(* The lesson a completion record names.                                   *)
(***************************************************************************)
\* C29: every row of course_progress names a lesson that table lessons
\* holds, in the course the row names.
C29_RecordsNameCourseLesson ==
    \A r \in course_progress :
        \E x \in lessons : x.id = r.lesson_id /\ x.course_id = r.course_id

==============================================================================
